---- MODULE Spec2Model ----
(***************************************************************************)
(* A model of the antilles extraction and masking pipeline:                *)
(*   antilles/pipeline/extract.py  (calc_bbox, extract_image,              *)
(*                                  update_translate, Extractor)           *)
(*   antilles/block.py, antilles/utils/__init__.py (Block.get, upsert)     *)
(*   cpplugins/makewedgemask.py    (make_mask and its callers)             *)
(*                                                                         *)
(* Numbers.  Pixel coordinates are integers.  Values the code holds as     *)
(* floats (the offsets r*cos, r*sin of pol2cart) are kept in fixed point,  *)
(* in thousandths of a pixel, and int() and round() are applied at the     *)
(* places where the code applies them.  Angles are whole degrees on the    *)
(* 45-degree grid, where cos and sin are tabulated.                        *)
(***************************************************************************)
EXTENDS Integers, Sequences, FiniteSets, TLC

VARIABLES
    \* update_translate called on its own (SpecMerge)
    new0,       \* the table passed as df, as it was before the call
    using,      \* the table passed as using
    df,         \* the df object: update_translate changes it in place and returns it
    first,      \* what the first call returned, kept for the second call
    pc,         \* which call has returned
    \* calc_bbox and extract_image called on their own (SpecCrop)
    job,        \* the arguments: slide dimensions, mpp and the wedge parameters
    bbox,       \* what calc_bbox returned
    props,      \* what extract_image returned, or the error it raised
    \* the wedge mask of the CellProfiler module (SpecMask)
    image,      \* shape (rows, columns) of the image the module is run on
    wedge_params, \* the measurements and settings run collects
    wedge_mask, \* the mask computed: its shape and its true pixels
    \* one block on disk and the pipeline steps run on it (Spec)
    coords,     \* the saved IMAGES_COORDS table: one row per slide and sample
    angles,     \* the saved ANGLES_COARSE table: one angle per sample
    bow_file,   \* annotations/IMAGES_COORDS_BOW.csv: whether it exists, and its rows
    regions_dir, \* the crop files under the block's 1_regions directory
    last,       \* the step that ran last, how it ended, and the bow file before it
    \* one call of a function of the library (SpecMakeMask, SpecUpsert, SpecUnpack)
    args,       \* the arguments of the call
    ret,        \* what the call returned or raised
    \* an annotation window (SpecAdjust, SpecAnnotate) and its canvas (SpecMouse)
    model,      \* the presenter's model: its tables and its list of relpaths
    state,      \* the presenter's state: index, id and downsample factor
    view,       \* the interactors the panel holds
    mouse       \* the mouse over the canvas: the buttons held and the presses so far

mergeVars == <<new0, using, df, first>>
cropVars == <<job, bbox, props>>
maskVars == <<image, wedge_params, wedge_mask>>
blockVars == <<coords, angles, bow_file, regions_dir, last>>
callVars == <<args, ret>>
guiVars == <<model, state, view, mouse>>
vars == <<mergeVars, cropVars, maskVars, blockVars, callVars, guiVars, pc>>

----------------------------------------------------------------------------
(* Small arithmetic helpers (the Python built-ins max and min).            *)

Max(a, b) == IF a >= b THEN a ELSE b
Min(a, b) == IF a <= b THEN a ELSE b

----------------------------------------------------------------------------
(* The region table IMAGES_COORDS_BOW: one record per row, one field per   *)
(* column of extract.py:252-269.                                           *)

\* The identity key columns update_translate matches on (extract.py:161).
cols == <<"project", "block", "panel", "level", "sample", "drug">>

\* The clamp of update_translate (extract.py:159).
buffer == 5

\* json.dumps({}) and the metadata blob of a reviewed region.
MetaEmpty == "{}"
MetaInclude == "{\"include\": true}"

\* using[ind] of extract.py:163-165: the positions of the rows of `tbl` that
\* equal `row` on every column of cols (the reduce of & over the columns).
MatchingRows(row, tbl) ==
    {j \in 1..Len(tbl) : \A k \in 1..Len(cols) : row[cols[k]] = tbl[j][cols[k]]}

\* A plausible slip: the previous points are taken from the new row.
UpdateRowFromNew(row, tbl) ==
    LET ind == MatchingRows(row, tbl)
    IN  IF Cardinality(ind) = 1
        THEN LET u == tbl[CHOOSE j \in ind : TRUE]
                 diff_x == row.origin_x - u.origin_x
                 diff_y == row.origin_y - u.origin_y
             IN  [row EXCEPT !.center_x = Max(row.center_x - diff_x, buffer),
                             !.center_y = Max(row.center_y - diff_y, buffer),
                             !.well_x = Max(row.well_x - diff_x, buffer),
                             !.well_y = Max(row.well_y - diff_y, buffer),
                             !.metadata = u.metadata]
        ELSE row

\* A plausible slip: no clamp against the buffer.
UpdateRowNoClamp(row, tbl) ==
    LET ind == MatchingRows(row, tbl)
    IN  IF Cardinality(ind) = 1
        THEN LET u == tbl[CHOOSE j \in ind : TRUE]
                 diff_x == row.origin_x - u.origin_x
                 diff_y == row.origin_y - u.origin_y
             IN  [row EXCEPT !.center_x = u.center_x - diff_x,
                             !.center_y = u.center_y - diff_y,
                             !.well_x = u.well_x - diff_x,
                             !.well_y = u.well_y - diff_y,
                             !.metadata = u.metadata]
        ELSE row

\* A plausible slip: the y shift is taken from the x origins.
UpdateRowShiftX(row, tbl) ==
    LET ind == MatchingRows(row, tbl)
    IN  IF Cardinality(ind) = 1
        THEN LET u == tbl[CHOOSE j \in ind : TRUE]
                 diff_x == row.origin_x - u.origin_x
                 diff_y == row.origin_x - u.origin_x
             IN  [row EXCEPT !.center_x = Max(u.center_x - diff_x, buffer),
                             !.center_y = Max(u.center_y - diff_y, buffer),
                             !.well_x = Max(u.well_x - diff_x, buffer),
                             !.well_y = Max(u.well_y - diff_y, buffer),
                             !.metadata = u.metadata]
        ELSE row

\* A plausible slip: the matched previous row replaces the new row, so the
\* previous origin and crop path come along with the points.
UpdateRowTakeAll(row, tbl) ==
    LET ind == MatchingRows(row, tbl)
    IN  IF Cardinality(ind) = 1
        THEN LET u == tbl[CHOOSE j \in ind : TRUE]
                 diff_x == row.origin_x - u.origin_x
                 diff_y == row.origin_y - u.origin_y
             IN  [u EXCEPT !.center_x = Max(u.center_x - diff_x, buffer),
                           !.center_y = Max(u.center_y - diff_y, buffer),
                           !.well_x = Max(u.well_x - diff_x, buffer),
                           !.well_y = Max(u.well_y - diff_y, buffer)]
        ELSE row

\* The body of the loop of update_translate for one row (extract.py:163-185):
\* with exactly one matching previous row, the previous center and well are
\* shifted by the change of origin and clamped below by buffer, and the
\* previous metadata is taken; otherwise the row stays as it is.
UpdateRow(row, tbl) ==
    LET ind == MatchingRows(row, tbl)
    IN  IF Cardinality(ind) = 1
        THEN LET u == tbl[CHOOSE j \in ind : TRUE]
                 diff_x == row.origin_x - u.origin_x
                 diff_y == row.origin_y - u.origin_y
             IN  [row EXCEPT !.center_x = Max(u.center_x - diff_x, buffer),
                             !.center_y = Max(u.center_y - diff_y, buffer),
                             !.well_x = Max(u.well_x - diff_x, buffer),
                             !.well_y = Max(u.well_y - diff_y, buffer),
                             !.metadata = u.metadata]
        ELSE row

\* The loop of update_translate from row i on.  df is changed in place, row
\* by row; when the caller passed the same object as df and as using
\* (aliased), each row is matched against df as it is at that moment.
RECURSIVE TranslateFrom(_, _, _, _)
TranslateFrom(i, cur, tbl, aliased) ==
    IF i > Len(cur)
    THEN cur
    ELSE LET row == UpdateRow(cur[i], IF aliased THEN cur ELSE tbl)
         IN  TranslateFrom(i + 1, [cur EXCEPT ![i] = row], tbl, aliased)

\* update_translate(df, using) (extract.py:158-187).  It has no raise
\* statement: it always returns df.
update_translate(d, u) == TranslateFrom(1, d, u, FALSE)

\* update_translate(t, using=t): one object in both roles.
update_translate_self(t) == TranslateFrom(1, t, t, TRUE)

----------------------------------------------------------------------------
(* get_filepath (extract.py:117-134): where the crop of one job is written. *)

\* Step.S1.value (block.py:29).
StepS1 == "1_regions"

\* project.config["output_order"]: the sub-directories of 1_regions.
output_order == <<"sample">>

\* fields with "level" replaced by "LVL" + str(level) (extract.py:122).
WithLevelTag(fields) == [fields EXCEPT !.level = "LVL" \o ToString(fields.level)]

\* "sep".join(parts)
RECURSIVE JoinStr(_, _)
JoinStr(parts, sep) ==
    IF Len(parts) = 0 THEN ""
    ELSE IF Len(parts) = 1 THEN parts[1]
    ELSE parts[1] \o sep \o JoinStr(Tail(parts), sep)

get_filepath(step, fields, order) ==
    LET f == WithLevelTag(fields)
        dirpath == JoinStr(<<f.project, f.block, step>>
                           \o [k \in 1..Len(order) |-> f[order[k]]], "/")
        filename == JoinStr([k \in 1..Len(cols) |-> f[cols[k]]], "_") \o ".tif"
    IN  JoinStr(<<dirpath, filename>>, "/")

----------------------------------------------------------------------------
(* Inputs of update_translate: a freshly extracted table and a table saved *)
(* by an earlier extraction and edited since.                              *)

\* Largest number of rows of the new and of the previous table.
MaxNew == 2
MaxPrev == 2

\* The identity fields of the jobs of one block: two samples, two drugs.
Fields(sample, drug) ==
    [project |-> "P", block |-> "B", panel |-> "HE", level |-> 1,
     sample |-> sample, cohorts |-> "[]", drug |-> drug]

JobFields == {Fields("S1", "d1"), Fields("S1", "d2"), Fields("S2", "d1")}

\* A row of the region table as extract_wedges appends it (extract.py:233-250)
\* and as the DataFrame keeps it (columns, extract.py:252-270).
Row(f, o, c, w, m, meta) ==
    [relpath |-> get_filepath(StepS1, f, output_order),
     project |-> f.project, block |-> f.block, panel |-> f.panel,
     level |-> f.level, sample |-> f.sample, cohorts |-> f.cohorts,
     drug |-> f.drug,
     origin_x |-> o[1], origin_y |-> o[2],
     center_x |-> c[1], center_y |-> c[2],
     well_x |-> w[1], well_y |-> w[2],
     mpp |-> m, metadata |-> meta]

\* Crop origins of the new extraction, and the rows it yields: the device
\* center (120, 110) of the slide seen from the crop, the well 40 px along +x.
NewOrigins == {<<0, 0>>, <<20, 0>>}
NewRows ==
    {Row(f, o, <<120 - o[1], 110 - o[2]>>, <<160 - o[1], 110 - o[2]>>, 10, MetaEmpty) :
        f \in JobFields, o \in NewOrigins}

\* Rows of the previous table: an origin, edited center and well points, and
\* the metadata of the review.
PrevMarks ==
    { [o |-> <<0, 5>>,  c |-> <<100, 100>>, w |-> <<110, 100>>, meta |-> MetaInclude],
      [o |-> <<20, 0>>, c |-> <<3, 100>>,   w |-> <<22, 2>>,    meta |-> MetaEmpty] }
PrevRows == {Row(f, p.o, p.c, p.w, 10, p.meta) : f \in JobFields, p \in PrevMarks}

\* All sequences over S of a length in lo..hi.
SeqsOf(S, lo, hi) == UNION {[1..n -> S] : n \in lo..hi}

\* No two rows of the table have the same identity key.
UniqueKeys(tbl) ==
    \A i, j \in 1..Len(tbl) : i # j => j \notin MatchingRows(tbl[i], tbl)

NoTable == <<>>

\* The variables of the other specifications, at rest.
NoJob == [name |-> "none"]
NoResult == [ok |-> FALSE, err |-> "none"]
IdleMerge == new0 = NoTable /\ using = NoTable /\ df = NoTable /\ first = NoTable
IdleCrop == job = NoJob /\ bbox = NoResult /\ props = NoResult
NoMask == [shape |-> <<0, 0>>, on |-> {}]
IdleMask == image = <<0, 0>> /\ wedge_params = NoJob /\ wedge_mask = NoMask
NoFile == [exists |-> FALSE, rows |-> <<>>]
IdleCall == args = NoJob /\ ret = NoJob
IdleGui == model = NoJob /\ state = NoJob /\ view = NoJob /\ mouse = NoJob
IdleBlock ==
    /\ coords = NoFile /\ angles = NoFile /\ bow_file = NoFile
    /\ regions_dir = {} /\ last = NoJob

InitMerge ==
    /\ IdleGui
    /\ IdleBlock
    /\ IdleCall
    /\ IdleCrop
    /\ IdleMask
    /\ new0 \in SeqsOf(NewRows, 1, MaxNew)
    /\ using \in SeqsOf(PrevRows, 0, MaxPrev)
    /\ df = new0
    /\ first = NoTable
    /\ pc = "start"

\* regions = update_translate(regions, using=regions_prev)
Merge ==
    /\ pc = "start"
    /\ df' = update_translate(df, using)
    /\ first' = df'
    /\ pc' = "merged"
    /\ UNCHANGED <<guiVars, callVars, new0, using, cropVars, maskVars, blockVars>>

\* update_translate(update_translate(new, previous), previous): the second
\* call gets the object the first call returned.
MergeAgain ==
    /\ pc = "merged"
    /\ df' = update_translate(df, using)
    /\ pc' = "remerged"
    /\ UNCHANGED <<guiVars, callVars, new0, using, first, cropVars, maskVars, blockVars>>

\* update_translate(t, using=t) for the previous table t.
MergeSelf ==
    /\ pc = "start"
    /\ Len(using) > 0
    /\ UniqueKeys(using)
    /\ df' = update_translate_self(using)
    /\ pc' = "self"
    /\ UNCHANGED <<guiVars, callVars, new0, using, first, cropVars, maskVars, blockVars>>

NextMerge == Merge \/ MergeAgain \/ MergeSelf

SpecMerge == InitMerge /\ [][NextMerge]_vars

----------------------------------------------------------------------------
(* Claims about update_translate, checked under SpecMerge.                 *)

\* Row i of the new table has exactly the previous row j as its match.
OnlyMatch(i, j) == MatchingRows(new0[i], using) = {j}

\* C1: after update_translate(df, using), every row of df that has exactly
\* one row of using with the same (project, block, panel, level, sample, drug)
\* has center = max(using.center - (df.origin - using.origin), 5) and
\* well = max(using.well - (df.origin - using.origin), 5), componentwise, and
\* the metadata of that using row.
C1_Rebased ==
    pc = "merged" =>
        \A i \in 1..Len(df) : \A j \in 1..Len(using) :
            OnlyMatch(i, j) =>
                LET dx == new0[i].origin_x - using[j].origin_x
                    dy == new0[i].origin_y - using[j].origin_y
                IN  /\ df[i].center_x = Max(using[j].center_x - dx, 5)
                    /\ df[i].center_y = Max(using[j].center_y - dy, 5)
                    /\ df[i].well_x = Max(using[j].well_x - dx, 5)
                    /\ df[i].well_y = Max(using[j].well_y - dy, 5)
                    /\ df[i].metadata = using[j].metadata

\* C1 witness: the origin moved by (+20, -5) against a previous center
\* (100, 100) with metadata {"include": true}; the merged row has center
\* (80, 105) and that metadata.
C1_Witness ==
    /\ pc = "merged"
    /\ \E i \in 1..Len(df) : \E j \in 1..Len(using) :
        /\ OnlyMatch(i, j)
        /\ new0[i].origin_x - using[j].origin_x = 20
        /\ new0[i].origin_y - using[j].origin_y = -5
        /\ using[j].center_x = 100 /\ using[j].center_y = 100
        /\ using[j].metadata = MetaInclude
        /\ df[i].center_x = 80 /\ df[i].center_y = 105
        /\ df[i].metadata = MetaInclude

\* C3 (as claimed): update_translate never returns a table when a row of the
\* new table matches more than one row of the previous table on the identity
\* key; it fails with an error instead.
C3_DuplicateKeyFails ==
    (\E i \in 1..Len(new0) : Cardinality(MatchingRows(new0[i], using)) > 1)
        => pc # "merged"

\* C4: update_translate(update_translate(new, previous), previous) equals
\* update_translate(new, previous), row for row.
C4_Idempotent == pc = "remerged" => df = first

\* C4 witness: the second call has returned, and the first call had changed
\* a row whose origin moved.
C4_Witness ==
    /\ pc = "remerged"
    /\ \E i \in 1..Len(df) : \E j \in 1..Len(using) :
        /\ OnlyMatch(i, j)
        /\ new0[i].origin_x # using[j].origin_x
        /\ first[i] # new0[i]

\* C5 (as claimed): update_translate(t, using=t) returns t with every center,
\* well and metadata value unchanged, also for rows with a coordinate below 5.
C5_SelfMergeNoOp == pc = "self" => df = using

\* The row with its center and well coordinates raised to at least 5.
Clamped(row) ==
    [row EXCEPT !.center_x = Max(@, 5), !.center_y = Max(@, 5),
                !.well_x = Max(@, 5), !.well_y = Max(@, 5)]

\* C5 (amended): for a table t with unique identity keys,
\* update_translate(t, using=t) returns t with every center and well
\* coordinate c replaced by max(c, 5) and everything else, the metadata
\* included, unchanged; rows whose coordinates are all at least 5 are
\* returned as they were.
C5_SelfMergeClamps ==
    pc = "self" =>
        /\ Len(df) = Len(using)
        /\ \A i \in 1..Len(df) : df[i] = Clamped(using[i])

\* C5 witness: a self-merge of a table with one row that has a coordinate
\* below 5, which comes back as 5, and one row that comes back unchanged.
C5_Witness ==
    /\ pc = "self"
    /\ \E i, j \in 1..Len(using) :
        /\ using[i].center_x < 5 /\ df[i].center_x = 5
        /\ using[j].well_x >= 5 /\ using[j].center_y >= 5 /\ df[j] = using[j]

\* The columns update_translate never assigns.
FrameCols ==
    {"relpath", "project", "block", "panel", "level", "sample", "cohorts",
     "drug", "origin_x", "origin_y", "mpp"}

\* C6: update_translate leaves every row of the new table that has no row
\* with the same identity key in the previous table as it was, center, well
\* and metadata included; and for every row, matched or not, origin_x,
\* origin_y, relpath, mpp and the identity fields are unchanged.
C6_Frame ==
    pc \in {"merged", "remerged"} =>
        /\ Len(df) = Len(new0)
        /\ \A i \in 1..Len(df) :
            /\ MatchingRows(new0[i], using) = {} => df[i] = new0[i]
            /\ \A c \in FrameCols : df[i][c] = new0[i][c]

\* C6 witness: a merge in which one row had no match and another row was
\* matched, at a different origin, and re-based.
C6_Witness ==
    /\ pc = "merged"
    /\ \E i, k \in 1..Len(df) :
        /\ MatchingRows(new0[i], using) = {}
        /\ \E j \in 1..Len(using) :
            OnlyMatch(k, j) /\ using[j].origin_x # new0[k].origin_x
        /\ df[k] # new0[k]

----------------------------------------------------------------------------
(* Geometry: pol2cart (utils/math.py:17-27), calc_bbox (extract.py:20-65)  *)
(* and extract_image (extract.py:137-155).                                 *)

\* The representative of theta in (-180, 180].
NormDegUpper(theta) == 180 - ((180 - theta) % 360)

\* theta = (theta + 180) % 360 - 180 (utils/math.py:19); Python's % and
\* the % of TLA+ both give a result in 0..359 here.
NormDeg(theta) == ((theta + 180) % 360) - 180

\* 1000 * cos and 1000 * sin of an angle of the 45-degree grid, after
\* normalization.  (The residue of floating point, such as sin(-pi) being
\* -1.2e-16 and not 0, is below the resolution of the table.)
Cos1000(t) ==
    CASE t = 0 -> 1000
      [] t = 45 \/ t = -45 -> 707
      [] t = 90 \/ t = -90 -> 0
      [] t = 135 \/ t = -135 -> -707
      [] t = 180 \/ t = -180 -> -1000
Sin1000(t) ==
    CASE t = 0 \/ t = 180 \/ t = -180 -> 0
      [] t = 45 \/ t = 135 -> 707
      [] t = 90 -> 1000
      [] t = -45 \/ t = -135 -> -707
      [] t = -90 -> -1000

\* pol2cart(r, theta), in_degs: r in pixels, the result in thousandths.
pol2cart(r, theta) ==
    LET t == NormDeg(theta)
    IN  <<r * Cos1000(t), r * Sin1000(t)>>

\* int(v) of a value in thousandths: truncation towards zero.
int(v) == IF v >= 0 THEN v \div 1000 ELSE -((-v) \div 1000)

\* int(round(v)) of a value in thousandths: Python rounds halves to even.
round(v) ==
    LET lo == v \div 1000
        rem == v % 1000
    IN  IF rem < 500 THEN lo
        ELSE IF rem > 500 THEN lo + 1
        ELSE IF lo % 2 = 0 THEN lo ELSE lo + 1

SetMin(S) == CHOOSE m \in S : \A x \in S : m <= x
SetMax(S) == CHOOSE m \in S : \A x \in S : m >= x

\* n_divisions of calc_bbox (extract.py:29).
n_divisions == 200

\* numpy.linspace(lo, hi, n): nothing for n = 0, lo alone for n = 1, and
\* otherwise both ends and the samples between them; between the ends the
\* model keeps the samples of the 45-degree grid, where cos and sin take
\* their extremes, in place of the n - 2 evenly spaced ones.
linspace(lo, hi, n) ==
    IF n = 0 THEN {}
    ELSE IF n = 1 THEN {lo}
    ELSE {a \in lo..hi : (a - lo) % 45 = 0}

\* kwargs.get(key, default)
Get(kwargs, key, default) == IF key \in DOMAIN kwargs THEN kwargs[key] ELSE default

\* calc_bbox(dims, center, angle, **kwargs) (extract.py:20-65): the outer arc
\* is swept over the span and the inner arc over the rest of the circle, the
\* least and greatest offsets are added to the center, the lower end is
\* clipped at 0 and the upper end at the image size, and both are truncated.
calc_bbox(dims, center, angle, kwargs) ==
    LET width == dims[1]
        height == dims[2]
        c_x == center[1]
        c_y == center[2]
        span == Get(kwargs, "span", 90)
        radius_inner == Get(kwargs, "radius_inner", 400)
        radius_outer == Get(kwargs, "radius_outer", 800)
        n_div0 == (n_divisions * span) \div 360
        n_div1 == n_divisions - n_div0
        hspan == span \div 2
        angles0 == linspace(angle - hspan, angle + hspan, n_div0)
        angles1 == linspace(angle + hspan, angle + 360 - hspan, n_div1)
        pts == {pol2cart(radius_outer, a) : a \in angles0}
               \cup {pol2cart(radius_inner, a) : a \in angles1}
        min_dx == SetMin({q[1] : q \in pts})
        max_dx == SetMax({q[1] : q \in pts})
        min_dy == SetMin({q[2] : q \in pts})
        max_dy == SetMax({q[2] : q \in pts})
        min_x == int(Max(c_x * 1000 + min_dx, 0))
        max_x == int(Min(c_x * 1000 + max_dx, width * 1000))
        min_y == int(Max(c_y * 1000 + min_dy, 0))
        max_y == int(Min(c_y * 1000 + max_dy, height * 1000))
    IN  [origin |-> <<min_x, min_y>>, size |-> <<max_x - min_x, max_y - min_y>>]

\* None as the value of a radius parameter ("radius_inner": null in the
\* configuration): a value that no numeric radius takes.  Dividing it raises
\* TypeError (extract.py:111-114).
RadiusNone == -1000000

\* microns2pixels(dct, keys, mpp) (extract.py:108-114): dct[key] /= mpp for
\* each key in turn.  A key that dct lacks raises KeyError, which the
\* except TypeError clause does not catch; a None value raises TypeError,
\* which it does catch, and stays as it is.  (The model's radii are multiples
\* of its mpp values, so the division is exact.)
RECURSIVE microns2pixels(_, _, _)
microns2pixels(dct, keys, mpp) ==
    IF Len(keys) = 0 THEN [ok |-> TRUE, dct |-> dct]
    ELSE IF keys[1] \notin DOMAIN dct THEN [ok |-> FALSE, err |-> "KeyError"]
    ELSE IF dct[keys[1]] = RadiusNone
    THEN microns2pixels(dct, Tail(keys), mpp)
    ELSE microns2pixels([dct EXCEPT ![keys[1]] = @ \div mpp], Tail(keys), mpp)

\* calc_bbox multiplies a radius by a cosine in pol2cart for every angle of
\* its arc (extract.py:39-41): a None radius raises TypeError when its arc
\* has at least one angle.
calc_bbox_raises(kwargs) ==
    LET span == Get(kwargs, "span", 90)
        n_div0 == (n_divisions * span) \div 360
        n_div1 == n_divisions - n_div0
    IN  \/ Get(kwargs, "radius_outer", 800) = RadiusNone /\ n_div0 > 0
        \/ Get(kwargs, "radius_inner", 400) = RadiusNone /\ n_div1 > 0

\* The radius, in microns, at which extract_image puts the well point
\* (extract.py:151).
r_init_um == 400

\* extract_image(src, dst, params) (extract.py:137-155) for a slide of the
\* given dimensions and mpp.  read_region is openslide's: it refuses a
\* negative width or height; for an empty region, whether an image file
\* comes out of read_region and save is the libraries' business (saveEmpty).
extract_image(dims, mpp, center, angle, wedge, saveEmpty) ==
    LET conv == microns2pixels(wedge, <<"radius_inner", "radius_outer">>, mpp)
    IN  IF ~conv.ok THEN [ok |-> FALSE, err |-> conv.err]
        ELSE IF calc_bbox_raises(conv.dct)
        THEN [ok |-> FALSE, err |-> "TypeError"]
        ELSE
        LET box == calc_bbox(dims, center, angle, conv.dct)
            origin == box.origin
            size == box.size
            cx == center[1] - origin[1]
            cy == center[2] - origin[2]
            r_init == r_init_um \div mpp
            d == pol2cart(r_init, angle)
            wx == round(cx * 1000 + d[1])
            wy == round(cy * 1000 + d[2])
        IN  IF size[1] < 0 \/ size[2] < 0
            THEN [ok |-> FALSE, err |-> "OpenSlideError"]
            ELSE IF (size[1] = 0 \/ size[2] = 0) /\ ~saveEmpty
            THEN [ok |-> FALSE, err |-> "SaveError"]
            ELSE [ok |-> TRUE, oxy |-> origin, cxy |-> <<cx, cy>>,
                  wxy |-> <<wx, wy>>, dims |-> size, mpp |-> mpp]

----------------------------------------------------------------------------
(* calc_bbox and extract_image on one slide (SpecCrop).                    *)

\* The slide: its size in pixels.
ImgW == 100
ImgH == 80

Mpps == {10, 20}
Centers == {<<x, y>> : x \in {-30, 10, 90, 130}, y \in {40, 100}}
Angles == {0, 45, 90, 180, 270, 405}

\* params["wedge"] of Extractor.extract: span in degrees, radii in microns
\* for extract_image and in pixels for calc_bbox called directly.
Wedges ==
    { [span |-> 90, radius_inner |-> 200, radius_outer |-> 400],
      [span |-> 180, radius_inner |-> 0, radius_outer |-> 800],
      [span |-> 270, radius_inner |-> 20, radius_outer |-> 40],
      [span |-> 360, radius_inner |-> 200, radius_outer |-> 400],
      [span |-> 90, radius_outer |-> 400],
      [span |-> 90, radius_inner |-> 200, radius_outer |-> RadiusNone] }

Jobs ==
    {[name |-> "job", dims |-> <<ImgW, ImgH>>, mpp |-> m, center |-> c,
      angle |-> a, wedge |-> w] :
        m \in Mpps, c \in Centers, a \in Angles, w \in Wedges}

InitCrop ==
    /\ IdleGui
    /\ IdleBlock
    /\ IdleMerge
    /\ IdleCall
    /\ IdleMask
    /\ job \in Jobs
    /\ bbox = NoResult
    /\ props = NoResult
    /\ pc = "crop"

\* origin, size = calc_bbox(dims, center, angle, **wedge)
CalcBBox ==
    /\ pc = "crop"
    /\ ~calc_bbox_raises(job.wedge)
    /\ bbox' = calc_bbox(job.dims, job.center, job.angle, job.wedge)
    /\ pc' = "bbox"
    /\ UNCHANGED <<guiVars, callVars, mergeVars, maskVars, blockVars, job, props>>

\* props = extract_image(src, dst, {**wedge, center, angle})
ExtractImage ==
    /\ pc = "crop"
    /\ \E saveEmpty \in BOOLEAN :
        props' = extract_image(job.dims, job.mpp, job.center, job.angle,
                               job.wedge, saveEmpty)
    /\ pc' = "extracted"
    /\ UNCHANGED <<guiVars, callVars, mergeVars, maskVars, blockVars, job, bbox>>

\* params = microns2pixels(params, ["radius_inner", "radius_outer"], mpp)
Microns2Pixels ==
    /\ pc = "crop"
    /\ props' = microns2pixels(job.wedge, <<"radius_inner", "radius_outer">>,
                               job.mpp)
    /\ pc' = "converted"
    /\ UNCHANGED <<guiVars, callVars, mergeVars, maskVars, blockVars, job, bbox>>

NextCrop == CalcBBox \/ ExtractImage \/ Microns2Pixels

SpecCrop == InitCrop /\ [][NextCrop]_vars

----------------------------------------------------------------------------
(* Claims about the crop geometry, checked under SpecCrop.                 *)

\* C7 (as claimed): in every row that extraction produces, the center and
\* the well point lie within [0, width) x [0, height) of the row's crop.
C7_PointsInsideCrop ==
    (pc = "extracted" /\ props.ok) =>
        /\ 0 <= props.cxy[1] /\ props.cxy[1] < props.dims[1]
        /\ 0 <= props.cxy[2] /\ props.cxy[2] < props.dims[2]
        /\ 0 <= props.wxy[1] /\ props.wxy[1] < props.dims[1]
        /\ 0 <= props.wxy[2] /\ props.wxy[2] < props.dims[2]

C7_Witness ==
    /\ pc = "extracted" /\ props.ok
    /\ 0 <= job.center[1] /\ job.center[1] < job.dims[1]
    /\ 0 <= job.center[2] /\ job.center[2] < job.dims[2]
    /\ props.wxy[1] >= props.dims[1]

----------------------------------------------------------------------------
(* The wedge mask: cart2pol, make_mask, make_wedge_mask_from_wedge_params  *)
(* and MakeWedgeMask.run (cpplugins/makewedgemask.py).                     *)

Abs(a) == IF a >= 0 THEN a ELSE -a
Sgn(a) == IF a > 0 THEN 1 ELSE IF a < 0 THEN -1 ELSE 0

\* math.sqrt of a perfect square (the model's lengths are whole pixels).
Sqrt(n) == CHOOSE r \in 0..n : r * r <= n /\ n < (r + 1) * (r + 1)

\* math.degrees(math.atan2(y, x)) for a vector on the 45-degree grid;
\* atan2(0, 0) is 0.
Atan2Deg(y, x) ==
    CASE y = 0 /\ x >= 0 -> 0
      [] y = 0 /\ x < 0 -> 180
      [] x = 0 /\ y > 0 -> 90
      [] x = 0 /\ y < 0 -> -90
      [] x > 0 /\ y = x -> 45
      [] x > 0 /\ y = -x -> -45
      [] x < 0 /\ y = -x -> 135
      [] x < 0 /\ y = x -> -135

\* cart2pol(x, y), in_deg (makewedgemask.py:72-79).
cart2pol(x, y) == [r |-> Sqrt(x * x + y * y), theta |-> Atan2Deg(y, x)]

\* Whether the angle phi in [0, 180] between two directions is at most
\* span / 2 degrees, for span a multiple of 45, decided exactly from
\* dot (in proportion to cos phi) and cross (to sin phi, taken >= 0):
\* tan 22.5 = sqrt(2) - 1 and tan 67.5 = sqrt(2) + 1.
AngleWithin(dot, cross, span) ==
    LET q == span \div 45
        e == -dot
    IN  CASE span < 0 -> FALSE
          [] q = 0 -> cross = 0 /\ dot > 0
          [] q = 1 -> dot > 0 /\ (cross + dot) * (cross + dot) <= 2 * dot * dot
          [] q = 2 -> dot > 0 /\ cross <= dot
          [] q = 3 -> dot > 0 /\ (cross <= dot \/ (cross - dot) * (cross - dot) <= 2 * dot * dot)
          [] q = 4 -> dot >= 0
          [] q = 5 -> dot >= 0 \/ (cross > e /\ (cross - e) * (cross - e) >= 2 * e * e)
          [] q = 6 -> dot >= 0 \/ cross >= e
          [] q = 7 -> dot >= 0 \/ (cross + e) * (cross + e) >= 2 * e * e
          [] q >= 8 -> TRUE

\* A plausible slip: the span reduced modulo 360 like the angles, so that a
\* full turn counts as none.
InSpanWrapped(xx, yy, th, span) ==
    LET t == NormDeg(th)
        ax == Sgn(Cos1000(t))
        ay == Sgn(Sin1000(t))
        px == IF xx = 0 /\ yy = 0 THEN 1 ELSE yy
        py == IF xx = 0 /\ yy = 0 THEN 0 ELSE xx
    IN  AngleWithin(ax * px + ay * py, Abs(ax * py - ay * px), span % 360)

\* The test -hspan <= angle <= hspan of make_mask for one pixel
\* (makewedgemask.py:119-129): theta = arctan2(xx, yy) is the angle of the
\* vector (yy, xx), angle is th - theta brought into [-pi, pi), and the test
\* is |angle| <= span / 2.  th is on the 45-degree grid; the direction of th
\* is (cos th, sin th), here the whole-number vector of that direction,
\* (sgn cos th, sgn sin th), the test depending on the direction only.  arctan2(0, 0) is 0, the direction (1, 0).
\* (For a pixel exactly on an edge of the span, the floating-point
\* comparison of the code can go either way; the model takes the exact one.)
InSpan(xx, yy, th, span) ==
    LET t == NormDeg(th)
        ax == Sgn(Cos1000(t))
        ay == Sgn(Sin1000(t))
        px == IF xx = 0 /\ yy = 0 THEN 1 ELSE yy
        py == IF xx = 0 /\ yy = 0 THEN 0 ELSE xx
    IN  AngleWithin(ax * px + ay * py, Abs(ax * py - ay * px), span)

\* A plausible slip: the inner bound compared without being squared.
make_mask_unsquared(dims, pos, width, radius, th, span) ==
    LET w == dims[1]
        h == dims[2]
    IN  [shape |-> <<h, w>>,
         on |-> {ij \in (0..(h - 1)) \X (0..(w - 1)) :
                    LET xx == ij[2] - pos[1]
                        yy == ij[1] - pos[2]
                        d2 == xx * xx + yy * yy
                    IN  /\ radius - width <= d2
                        /\ radius * radius >= d2
                        /\ InSpan(xx, yy, th, span)}]

\* make_mask(dims, pos, width, radius, th, span) (makewedgemask.py:95-132).
\* dims is read as (w, h); meshgrid(arange(w), arange(h)) gives arrays of h
\* rows and w columns with xx[i][j] = j and yy[i][j] = i, so the mask has
\* shape (h, w) and entry [i][j] is the pixel x = j, y = i.
make_mask(dims, pos, width, radius, th, span) ==
    LET w == dims[1]
        h == dims[2]
    IN  [shape |-> <<h, w>>,
         on |-> {ij \in (0..(h - 1)) \X (0..(w - 1)) :
                    LET xx == ij[2] - pos[1]
                        yy == ij[1] - pos[2]
                        d2 == xx * xx + yy * yy
                        radius_small == (radius - width) * (radius - width)
                    IN  /\ radius_small <= d2
                        /\ radius * radius >= d2
                        /\ InSpan(xx, yy, th, span)}]

\* make_wedge_mask_from_wedge_params(params, dims) (makewedgemask.py:135-159).
\* (Offset and Thickness are multiples of MPP in the model, and Span is
\* even, so the divisions are exact.)
make_wedge_mask_from_wedge_params(params, dims) ==
    LET microns_per_pixel == params.MPP
        center_curvature == <<params.CenterCurvatureX, params.CenterCurvatureY>>
        center_well == <<params.CenterWellX, params.CenterWellY>>
        wedge_offset == params.Offset \div microns_per_pixel
        wedge_thickness == params.Thickness \div microns_per_pixel
        wedge_span == params.Span
        delta_x == center_well[1] - center_curvature[1]
        delta_y == center_well[2] - center_curvature[2]
        pol == cart2pol(delta_y, delta_x)
    IN  make_mask(dims, center_curvature, wedge_thickness,
                  pol.r + wedge_offset + wedge_thickness,
                  pol.theta, wedge_span \div 2)

----------------------------------------------------------------------------
(* The module run on one image (SpecMask).                                 *)

\* Largest number of rows and of columns of the image.
MaxSide == 6

ImageShapes == {<<r, c>> : r \in (MaxSide - 1)..MaxSide, c \in (MaxSide - 2)..MaxSide}

\* The measurements of one region: the center of curvature, the well on one
\* of the four axis directions from it, thickness and span from the
\* metadata, offset from the module's setting.
WellOffsets == {<<2, 0>>, <<0, 2>>, <<-1, 0>>, <<0, -1>>}
WedgeParams ==
    {[name |-> "wedge", MPP |-> 2,
      CenterCurvatureX |-> c[1], CenterCurvatureY |-> c[2],
      CenterWellX |-> c[1] + d[1], CenterWellY |-> c[2] + d[2],
      Offset |-> off, Thickness |-> th, Span |-> sp] :
        c \in {<<2, 3>>, <<3, 1>>}, d \in WellOffsets,
        off \in {0, 2}, th \in {2, 4}, sp \in {90, 180, 270, 360}}

\* One full-size region: a 1000 x 1000 image at 0.5 microns per pixel, the
\* center of curvature in the middle and the well 100 px to its right; the
\* offset and thickness put the wedge between 800 px and 1600 px from the
\* center.  (MPP, Offset and Thickness are written in tenths of a micron.)
ScenarioShape == <<1000, 1000>>
ScenarioParams ==
    [name |-> "wedge", MPP |-> 5,
     CenterCurvatureX |-> 500, CenterCurvatureY |-> 500,
     CenterWellX |-> 600, CenterWellY |-> 500,
     Offset |-> 3500, Thickness |-> 4000, Span |-> 90]

InitMask ==
    /\ IdleGui
    /\ IdleBlock
    /\ IdleMerge
    /\ IdleCall
    /\ IdleCrop
    /\ \/ image \in ImageShapes /\ wedge_params \in WedgeParams
       \/ image = ScenarioShape /\ wedge_params = ScenarioParams
    /\ wedge_mask = NoMask
    /\ pc = "mask"

\* MakeWedgeMask.run (makewedgemask.py:276-306): the mask is computed for
\* image_data.shape[:2], which is (rows, columns), and stored as the
\* segmentation of the mask object.
Run ==
    /\ pc = "mask"
    /\ wedge_mask' = make_wedge_mask_from_wedge_params(wedge_params, image)
    /\ pc' = "run"
    /\ UNCHANGED <<guiVars, callVars, mergeVars, cropVars, blockVars, image, wedge_params>>

\* make_wedge_mask_from_wedge_params(params, (width, height)) called with
\* the dimensions in the order make_mask reads them.
WedgeMask ==
    /\ pc = "mask"
    /\ wedge_mask' = make_wedge_mask_from_wedge_params(wedge_params, <<image[2], image[1]>>)
    /\ pc' = "called"
    /\ UNCHANGED <<guiVars, callVars, mergeVars, cropVars, blockVars, image, wedge_params>>

NextMask == Run \/ WedgeMask

SpecMask == InitMask /\ [][NextMask]_vars

----------------------------------------------------------------------------
(* Claims about the wedge mask, checked under SpecMask.                    *)

\* The membership the claim C9 gives for pixel (x, y), for a wedge of total
\* angular width `total`: the squared distance from the center of curvature
\* is between (L + offset_px)^2 and (L + offset_px + thickness_px)^2, and
\* the angle between the pixel direction and the center-to-well direction
\* is at most total / 2.
InWedge(p, x, y, total) ==
    LET vx == x - p.CenterCurvatureX
        vy == y - p.CenterCurvatureY
        ux == p.CenterWellX - p.CenterCurvatureX
        uy == p.CenterWellY - p.CenterCurvatureY
        L == Sqrt(ux * ux + uy * uy)
        lo == L + p.Offset \div p.MPP
        hi == lo + p.Thickness \div p.MPP
        d2 == vx * vx + vy * vy
    IN  /\ lo * lo <= d2
        /\ d2 <= hi * hi
        /\ AngleWithin(ux * vx + uy * vy, Abs(ux * vy - uy * vx), total)

\* C9 (as claimed): make_wedge_mask_from_wedge_params marks pixel (x, y) true
\* if and only if it lies in the radius band and within Span/2 of the
\* center-to-well direction on either side, Span being the total angular
\* width given in the parameters.
C9_MaskIsWedgeOfSpan ==
    pc = "called" =>
        \A x \in 0..(image[2] - 1) : \A y \in 0..(image[1] - 1) :
            <<y, x>> \in wedge_mask.on <=> InWedge(wedge_params, x, y, wedge_params.Span)

\* C9, what the code computes: the same wedge at half the angular width,
\* Span/4 on either side (Span/2 is passed to make_mask, which halves it).
C9_MaskIsWedgeOfHalfSpan ==
    pc = "called" =>
        \A x \in 0..(image[2] - 1) : \A y \in 0..(image[1] - 1) :
            <<y, x>> \in wedge_mask.on <=> InWedge(wedge_params, x, y, wedge_params.Span \div 2)

\* C9, the failing case: a pixel in the band and within Span/2 of the
\* center-to-well direction that the mask leaves false.
C9_Witness ==
    /\ pc = "called"
    /\ \E x \in 0..(image[2] - 1) : \E y \in 0..(image[1] - 1) :
        /\ InWedge(wedge_params, x, y, wedge_params.Span)
        /\ <<y, x>> \notin wedge_mask.on

\* C10 (as claimed): the mask run computes has the shape (rows, columns) of
\* the image, also for an image that is not square.
C10_MaskHasImageShape == pc = "run" => wedge_mask.shape = image

\* C10, the failing case: an image that is not square gets a mask of the
\* transposed shape.
C10_Witness ==
    /\ pc = "run"
    /\ image[1] # image[2]
    /\ wedge_mask.shape = <<image[2], image[1]>>

\* d2 of pixel (x, y) from the center of curvature of the parameters p.
Dist2(p, x, y) ==
    (x - p.CenterCurvatureX) * (x - p.CenterCurvatureX)
    + (y - p.CenterCurvatureY) * (y - p.CenterCurvatureY)

\* C13 (as claimed): for the full-size region (inner radius 800 px, outer
\* radius 1600 px, span 90) the mask is non-empty, symmetric about the line
\* from the center through the well (the row y = 500), and has no true
\* pixel farther than 1600 px from the center.
C13_ScenarioMask ==
    (pc = "called" /\ wedge_params = ScenarioParams) =>
        /\ wedge_mask.on # {}
        /\ \A ij \in wedge_mask.on :
            LET my == 2 * wedge_params.CenterCurvatureY - ij[1]
            IN  my \in 0..(image[1] - 1) => <<my, ij[2]>> \in wedge_mask.on
        /\ \A ij \in wedge_mask.on :
            Dist2(wedge_params, ij[2], ij[1]) <= 1600 * 1600

\* The inner radius of the wedge of the parameters p, in pixels: the
\* distance from the center of curvature to the well plus the offset.
InnerPx(p) ==
    Sqrt((p.CenterWellX - p.CenterCurvatureX) * (p.CenterWellX - p.CenterCurvatureX)
         + (p.CenterWellY - p.CenterCurvatureY) * (p.CenterWellY - p.CenterCurvatureY))
    + p.Offset \div p.MPP

\* C13 (amended): no true pixel of a mask is nearer to the center than the
\* inner radius or farther than the outer radius; for the full-size region
\* every pixel of the image is nearer than the inner radius of 800 px (the
\* corners are about 707 px away), so the mask is empty.
C13_ScenarioMaskEmpty ==
    pc = "called" =>
        /\ LET lo == InnerPx(wedge_params)
               hi == lo + wedge_params.Thickness \div wedge_params.MPP
           IN  \A ij \in wedge_mask.on :
                /\ lo * lo <= Dist2(wedge_params, ij[2], ij[1])
                /\ Dist2(wedge_params, ij[2], ij[1]) <= hi * hi
        /\ wedge_params = ScenarioParams =>
            /\ InnerPx(wedge_params) = 800
            /\ \A x \in 0..(image[2] - 1) : \A y \in 0..(image[1] - 1) :
                Dist2(wedge_params, x, y) < 800 * 800
            /\ wedge_mask.on = {}

\* C13: the mask of the full-size region has been computed.
C13_Witness ==
    /\ pc = "called"
    /\ wedge_params = ScenarioParams
    /\ wedge_mask.shape = ScenarioShape

----------------------------------------------------------------------------
(* Tables on disk: upsert (utils/__init__.py:23-33).                       *)

\* The strings of the model's sort columns, in Python's string order.
StrOrder == <<"B", "HE", "IHC", "P", "S1", "S2", "[]", "d1", "d2">>
StrRank(v) == CHOOSE k \in 1..Len(StrOrder) : StrOrder[k] = v

\* v1 < v2 for two values of column c ("level" holds integers).
ValLess(v1, v2, c) == IF c = "level" THEN v1 < v2 ELSE StrRank(v1) < StrRank(v2)

\* Row a sorts before row b on the columns `by`, compared in turn.
RECURSIVE RowLess(_, _, _)
RowLess(a, b, by) ==
    IF Len(by) = 0 THEN FALSE
    ELSE IF ValLess(a[by[1]], b[by[1]], by[1]) THEN TRUE
    ELSE IF ValLess(b[by[1]], a[by[1]], by[1]) THEN FALSE
    ELSE RowLess(a, b, Tail(by))

RECURSIVE InsertSorted(_, _, _)
InsertSorted(sorted, r, by) ==
    IF Len(sorted) = 0 THEN <<r>>
    ELSE IF RowLess(r, Head(sorted), by) THEN <<r>> \o sorted
    ELSE <<Head(sorted)>> \o InsertSorted(Tail(sorted), r, by)

\* DataFrame.sort_values(by=...), rows with equal keys kept in their order.
RECURSIVE SortBy(_, _)
SortBy(rows, by) ==
    IF Len(rows) = 0 THEN <<>>
    ELSE InsertSorted(SortBy(SubSeq(rows, 1, Len(rows) - 1), by), rows[Len(rows)], by)

\* update[x].isin(using[x]) for one row of update.
IsIn(v, tbl, c) == \E j \in 1..Len(tbl) : tbl[j][c] = v

\* upsert(update, using, cols): the rows of update that have, in some column
\* of cols, a value that column of using does not hold, followed by the rows
\* of using, sorted by cols.  reduce() over no columns at all raises
\* TypeError (it is given no initial value).
upsert(update, tbl, by) ==
    IF Len(by) = 0 THEN [ok |-> FALSE, err |-> "TypeError"]
    ELSE LET kept == SelectSeq(update,
                        LAMBDA r : \E k \in 1..Len(by) : ~IsIn(r[by[k]], tbl, by[k]))
         IN  [ok |-> TRUE, table |-> SortBy(kept \o tbl, by)]

\* columns_upsert (block.py:45-49).
columns_upsert(field) ==
    CASE field = "IMAGES_COORDS" ->
            <<"project", "block", "panel", "level", "sample", "cohorts">>
      [] field = "ANGLES_COARSE" -> <<"sample">>
      [] field = "IMAGES_COORDS_BOW" -> <<>>

----------------------------------------------------------------------------
(* The block: its samples, devices and slides, and the tables               *)
(* init_coords_slides and init_angles_coarse start from.                   *)

\* block.samples, as unpack returns it.
Samples ==
    << [name |-> "S1", device |-> "DEV", cohorts |-> "[]"],
       [name |-> "S2", device |-> "DEV", cohorts |-> "[]"] >>

\* project.config["devices"]: one device type, one level, two wells.
Devices ==
    << [name |-> "DEV",
        payload |-> << [level |-> 1,
                        wells |-> << [drug |-> "d1", angle |-> 0],
                                     [drug |-> "d2", angle |-> 180] >>] >>] >>

\* block.images: the slides under 0_slides, with what openslide reads from
\* the file (dimensions and microns per pixel).
Slides ==
    << [project |-> "P", block |-> "B", panel |-> "HE", level |-> 1,
        relpath |-> "P/B/0_slides/P_B_LVL1_HE.svs",
        dims |-> <<ImgW, ImgH>>, mpp |-> 10] >>

SlideAt(relpath) == CHOOSE k \in 1..Len(Slides) : Slides[k].relpath = relpath

\* math.ceil(math.sqrt(n)) and math.ceil(n / d), for n >= 1.
CeilSqrt(n) == CHOOSE r \in 1..n : r * r >= n /\ (r - 1) * (r - 1) < n
CeilDiv(n, d) == (n + d - 1) \div d

\* init_arrow_coords(dims, n) (utils/math.py:36-48): the first n points of
\* an even grid, the x index running slowest.
init_arrow_coords(dims, n) ==
    LET nx == CeilSqrt(n)
        ny == CeilDiv(n, nx)
    IN  [i \in 1..n |->
            << round((((i - 1) \div ny + 1) * dims[1] * 1000) \div (nx + 1)),
               round(((((i - 1) % ny) + 1) * dims[2] * 1000) \div (ny + 1)) >>]

\* columns_sort_by (block.py:44).
columns_sort_by == <<"block", "level", "sample", "panel">>

\* init_coords_slides(slides, samples) (block.py:108-132).
init_coords_slides(slides, samples) ==
    LET n == Len(samples)
        row(k, i) ==
            [relpath |-> slides[k].relpath, project |-> slides[k].project,
             block |-> slides[k].block, level |-> slides[k].level,
             sample |-> samples[i].name, cohorts |-> samples[i].cohorts,
             panel |-> slides[k].panel,
             center_x |-> init_arrow_coords(slides[k].dims, n)[i][1],
             center_y |-> init_arrow_coords(slides[k].dims, n)[i][2]]
    IN  SortBy([m \in 1..(Len(slides) * n) |-> row((m - 1) \div n + 1, ((m - 1) % n) + 1)],
               columns_sort_by)

\* init_angles_coarse(samples) (block.py:135-139).
init_angles_coarse(samples) ==
    [i \in 1..Len(samples) |-> [sample |-> samples[i].name, angle |-> -90]]

----------------------------------------------------------------------------
(* Block.init and Block.get (block.py:242-301).                            *)

\* The table a field starts from; none of the model's bow rows exist before
\* the first extraction.
BlockInit(field) ==
    CASE field = "IMAGES_COORDS" -> init_coords_slides(Slides, Samples)
      [] field = "ANGLES_COARSE" -> init_angles_coarse(Samples)
      [] field = "IMAGES_COORDS_BOW" -> <<>>

\* Block.get(field): the initial table when no file was saved; otherwise the
\* saved rows upserted into the initial table on columns_upsert[field].
BlockGet(field, file) ==
    IF file.exists
    THEN upsert(BlockInit(field), file.rows, columns_upsert(field))
    ELSE [ok |-> TRUE, table |-> BlockInit(field)]

----------------------------------------------------------------------------
(* Extraction: get_extraction_sequence (extract.py:68-105) and             *)
(* Extractor.extract_wedges (extract.py:216-271).                          *)

\* next(...) over the positions that pass the generator's test takes the
\* first and raises StopIteration when there is none.
First(S) == CHOOSE k \in S : \A m \in S : k <= m

\* A plausible slip: a failed lookup passed over without a word.
RaiseSwallowed(err) == <<>>

\* An exception leaving the generator: what the consumer gets in place of
\* the next job.
Raise(err) == <<[kind |-> "error", err |-> err]>>

\* A plausible slip: the well's own angle left out of the job.
JobOfNoWellAngle(region, well, sample_angle) ==
    [kind |-> "job",
     src |-> region.relpath,
     fields |-> [project |-> region.project, block |-> region.block,
                 panel |-> region.panel, level |-> region.level,
                 sample |-> region.sample, cohorts |-> region.cohorts,
                 drug |-> well.drug],
     center |-> <<region.center_x, region.center_y>>,
     angle |-> sample_angle]

\* The job yielded for one well of a region (extract.py:90-105).
JobOf(region, well, sample_angle) ==
    [kind |-> "job",
     src |-> region.relpath,
     fields |-> [project |-> region.project, block |-> region.block,
                 panel |-> region.panel, level |-> region.level,
                 sample |-> region.sample, cohorts |-> region.cohorts,
                 drug |-> well.drug],
     center |-> <<region.center_x, region.center_y>>,
     angle |-> sample_angle + well.angle]

\* What the generator yields for one region of the coords table: one job per
\* well of the sample's device at the region's level, or the error that the
\* lookups raise.  A next(...) that finds nothing raises StopIteration
\* inside the generator, which reaches the caller as RuntimeError (the
\* package needs Python 3.7, point.py:1); a sample without a row in the
\* angles table gives KeyError at its first well.
JobsOfRegion(region, samples, devices, angs) ==
    LET smp == {k \in 1..Len(samples) : samples[k].name = region.sample}
    IN  IF smp = {} THEN Raise("RuntimeError")
        ELSE
        LET device_name == samples[First(smp)].device
            dev == {k \in 1..Len(devices) : devices[k].name = device_name}
        IN  IF dev = {} THEN Raise("RuntimeError")
            ELSE
            LET payload == devices[First(dev)].payload
                lvl == {k \in 1..Len(payload) : payload[k].level = region.level}
            IN  IF lvl = {} THEN Raise("RuntimeError")
                ELSE
                LET wells == payload[First(lvl)].wells
                    ang == {k \in 1..Len(angs) : angs[k].sample = region.sample}
                IN  IF ang = {} /\ Len(wells) > 0
                    THEN Raise("KeyError")
                    ELSE [w \in 1..Len(wells) |->
                            \* the last row of the angles table for the sample
                            \* is the one the dict keeps
                            JobOf(region, wells[w],
                                  angs[CHOOSE k \in ang : \A m \in ang : m <= k].angle)]

\* get_extraction_sequence(settings): the jobs in table order, up to the
\* first region whose lookups fail; the exception ends the generator.
RECURSIVE get_extraction_sequence(_, _, _, _)
get_extraction_sequence(regions, samples, devices, angs) ==
    IF Len(regions) = 0 THEN <<>>
    ELSE LET js == JobsOfRegion(Head(regions), samples, devices, angs)
         IN  IF Len(js) > 0 /\ js[Len(js)].kind = "error"
             THEN js
             ELSE js \o get_extraction_sequence(Tail(regions), samples, devices, angs)

\* The loop of extract_wedges (extract.py:228-250) over what the generator
\* yields: each job's crop is written and its row appended; an error of the
\* generator or of extract_image ends the loop, the crops written so far
\* staying on disk.
RECURSIVE ExtractJobs(_, _, _, _)
ExtractJobs(items, wedge, saveEmpty, acc) ==
    IF Len(items) = 0 \/ ~acc.ok THEN acc
    ELSE
    LET it == Head(items)
    IN  IF it.kind = "error" THEN [acc EXCEPT !.ok = FALSE, !.err = it.err]
        ELSE
        LET dst == get_filepath(StepS1, it.fields, output_order)
            sl == Slides[SlideAt(it.src)]
            p == extract_image(sl.dims, sl.mpp, it.center, it.angle, wedge, saveEmpty)
        IN  IF ~p.ok THEN [acc EXCEPT !.ok = FALSE, !.err = p.err]
            ELSE ExtractJobs(Tail(items), wedge, saveEmpty,
                    [acc EXCEPT
                        !.files = @ \cup {dst},
                        !.rows = Append(@, Row(it.fields, p.oxy, p.cxy, p.wxy,
                                               p.mpp, MetaEmpty))])

extract_wedges(tbl, angs, wedge, saveEmpty) ==
    ExtractJobs(get_extraction_sequence(tbl, Samples, Devices, angs), wedge, saveEmpty,
                [ok |-> TRUE, err |-> "none", files |-> {}, rows |-> <<>>])

----------------------------------------------------------------------------
(* The pipeline steps on one block (Spec).                                 *)

\* What the user does in the slide annotation window for one sample: the
\* arrow's tail (device center) and its direction.
ArrowMarks == {[c |-> <<50, 40>>, a |-> 0], [c |-> <<90, 40>>, a |-> -90]}

\* params["wedge"] of the run scripts: span in degrees, radii in microns.
RunWedges ==
    { [span |-> 90, radius_inner |-> 200, radius_outer |-> 400],
      [span |-> 180, radius_inner |-> 200, radius_outer |-> 800] }

Init ==
    /\ IdleGui
    /\ IdleMerge
    /\ IdleCall
    /\ IdleCrop
    /\ IdleMask
    /\ coords = NoFile
    /\ angles = NoFile
    /\ bow_file = NoFile
    /\ regions_dir = {}
    /\ last = [name |-> "none"]
    /\ pc = "block"

\* Extractor.adjust (extract.py:196-203): both tables are read, the user
\* moves the arrow of one sample, and both tables are saved.
AnnotateSlides ==
    /\ pc = "block"
    /\ LET c == BlockGet("IMAGES_COORDS", coords)
           a == BlockGet("ANGLES_COARSE", angles)
       IN  \E s \in 1..Len(Samples) : \E m \in ArrowMarks :
            /\ coords' = [exists |-> TRUE,
                          rows |-> [k \in 1..Len(c.table) |->
                            IF c.table[k].sample = Samples[s].name
                            THEN [c.table[k] EXCEPT !.center_x = m.c[1],
                                                    !.center_y = m.c[2]]
                            ELSE c.table[k]]]
            /\ angles' = [exists |-> TRUE,
                          rows |-> [k \in 1..Len(a.table) |->
                            IF a.table[k].sample = Samples[s].name
                            THEN [a.table[k] EXCEPT !.angle = m.a]
                            ELSE a.table[k]]]
    /\ last' = [name |-> "annotate", status |-> "ok", before |-> bow_file]
    /\ UNCHANGED <<guiVars, callVars, mergeVars, cropVars, maskVars, bow_file, regions_dir, pc>>

\* Extractor.extract(params) (extract.py:205-214): the crops are removed, the
\* previous region table is read, the wedges are extracted, the previous
\* edits are merged in and the table is saved.  An exception at any step
\* ends the run there.
Extract ==
    /\ pc = "block"
    /\ \E wedge \in RunWedges : \E saveEmpty \in BOOLEAN :
        LET regions_prev == BlockGet("IMAGES_COORDS_BOW", bow_file)
            run == extract_wedges(BlockGet("IMAGES_COORDS", coords).table,
                                  BlockGet("ANGLES_COARSE", angles).table,
                                  wedge, saveEmpty)
        IN  IF ~regions_prev.ok
            THEN /\ regions_dir' = {}
                 /\ bow_file' = bow_file
                 /\ last' = [name |-> "extract", status |-> regions_prev.err,
                             before |-> bow_file]
            ELSE IF ~run.ok
            THEN /\ regions_dir' = run.files
                 /\ bow_file' = bow_file
                 /\ last' = [name |-> "extract", status |-> run.err, before |-> bow_file]
            ELSE /\ regions_dir' = run.files
                 /\ bow_file' = [exists |-> TRUE,
                                 rows |-> update_translate(run.rows, regions_prev.table)]
                 /\ last' = [name |-> "extract", status |-> "ok", before |-> bow_file]
    /\ UNCHANGED <<guiVars, callVars, mergeVars, cropVars, maskVars, coords, angles, pc>>

\* Adjuster.run (adjust.py:281-286): the region table is read, shown for
\* editing and saved.  With a saved table Block.get raises; with none the
\* table is empty and the first render indexes an empty list of relpaths
\* (adjust.py:39-40, 217-219).
AdjusterRun ==
    /\ pc = "block"
    /\ LET regions == BlockGet("IMAGES_COORDS_BOW", bow_file)
       IN  last' = [name |-> "adjust",
                    status |-> IF ~regions.ok THEN regions.err ELSE "IndexError",
                    before |-> bow_file]
    /\ UNCHANGED <<guiVars, callVars, mergeVars, cropVars, maskVars, coords, angles, bow_file,
                   regions_dir, pc>>

Next == AnnotateSlides \/ Extract \/ AdjusterRun

Spec == Init /\ [][Next]_vars

----------------------------------------------------------------------------
(* Claims about the pipeline, checked under Spec.                          *)

\* C2 (as claimed): Extractor.extract on a block whose IMAGES_COORDS_BOW
\* table was saved earlier completes and saves a table in which every row
\* whose identity key was in the earlier table carries the earlier metadata
\* and the re-based earlier center and well points.
C2_ReextractKeepsEdits ==
    (last.name = "extract" /\ last.before.exists) =>
        /\ last.status = "ok"
        /\ bow_file.exists
        /\ \A i \in 1..Len(bow_file.rows) : \A j \in 1..Len(last.before.rows) :
            MatchingRows(bow_file.rows[i], last.before.rows) = {j} =>
                LET r == bow_file.rows[i]
                    u == last.before.rows[j]
                IN  /\ r.metadata = u.metadata
                    /\ r.center_x = Max(u.center_x - (r.origin_x - u.origin_x), 5)
                    /\ r.center_y = Max(u.center_y - (r.origin_y - u.origin_y), 5)
                    /\ r.well_x = Max(u.well_x - (r.origin_x - u.origin_x), 5)
                    /\ r.well_y = Max(u.well_y - (r.origin_y - u.origin_y), 5)

\* C2, the failing case: the second extraction of a block stops with
\* TypeError while reading the table the first one saved, after the crops
\* were removed.
C2_Witness ==
    /\ last.name = "extract"
    /\ last.before.exists
    /\ last.status = "TypeError"
    /\ regions_dir = {}
    /\ bow_file = last.before

----------------------------------------------------------------------------
(* make_mask called on its own, and called again with a larger width or a  *)
(* larger span (SpecMakeMask).                                             *)

\* Largest width and largest outer radius of the calls, in pixels.
MaxWidth == 5
MaxRadius == 3

Spans == {0, 45, 90, 135, 180, 225, 270, 315, 360}

MaskArgs ==
    {[name |-> "make_mask", dims |-> d, pos |-> p, width |-> wd, radius |-> r,
      th |-> t, span |-> sp] :
        d \in {<<5, 5>>, <<6, 4>>}, p \in {<<2, 2>>, <<3, 1>>},
        wd \in 0..MaxWidth, r \in (MaxRadius - 1)..MaxRadius,
        t \in {0, 45, -90}, sp \in Spans}

InitMakeMask ==
    /\ IdleGui
    /\ IdleBlock
    /\ IdleMerge
    /\ IdleCrop
    /\ IdleMask
    /\ args \in MaskArgs
    /\ ret = NoJob
    /\ pc = "make_mask"

\* mask = make_mask(dims, pos, width, radius, th, span)
MakeMask ==
    /\ pc = "make_mask"
    /\ ret' = [mask |-> make_mask(args.dims, args.pos, args.width, args.radius,
                                  args.th, args.span),
               width |-> args.width, span |-> args.span, other |-> NoMask]
    /\ pc' = "made"
    /\ UNCHANGED <<guiVars, mergeVars, cropVars, maskVars, blockVars, args>>

\* The same call with a width at least as large.
MakeMaskWider ==
    /\ pc = "made"
    /\ \E wd \in args.width..MaxWidth :
        ret' = [ret EXCEPT !.width = wd,
                           !.other = make_mask(args.dims, args.pos, wd, args.radius,
                                               args.th, args.span)]
    /\ pc' = "wider"
    /\ UNCHANGED <<guiVars, mergeVars, cropVars, maskVars, blockVars, args>>

\* The same call with a span at least as large.
MakeMaskWiderSpan ==
    /\ pc = "made"
    /\ \E sp \in {x \in Spans : x >= args.span} :
        ret' = [ret EXCEPT !.span = sp,
                           !.other = make_mask(args.dims, args.pos, args.width,
                                               args.radius, args.th, sp)]
    /\ pc' = "spanned"
    /\ UNCHANGED <<guiVars, mergeVars, cropVars, maskVars, blockVars, args>>

NextMakeMask == MakeMask \/ MakeMaskWider \/ MakeMaskWiderSpan

SpecMakeMask == InitMakeMask /\ [][NextMakeMask]_vars

----------------------------------------------------------------------------
(* Claims about make_mask, checked under SpecMakeMask.                     *)

\* C11 (as claimed): with everything else fixed, the number of true pixels
\* of make_mask does not decrease when the width increases, also for widths
\* larger than the outer radius.
C11_CountGrowsWithWidth ==
    pc = "wider" => Cardinality(ret.mask.on) <= Cardinality(ret.other.on)

\* C11, the failing case: a width beyond the outer radius, and fewer true
\* pixels than with the smaller width.
C11_Witness ==
    /\ pc = "wider"
    /\ ret.width > args.radius
    /\ Cardinality(ret.other.on) < Cardinality(ret.mask.on)

\* C11, up to the outer radius: for widths that do not exceed the radius the
\* true pixels of the smaller width are true pixels of the larger one.
C11_GrowsUpToRadius ==
    (pc = "wider" /\ ret.width <= args.radius) => ret.mask.on \subseteq ret.other.on

\* C12: with everything else fixed, the true pixels of make_mask for a span
\* are true pixels for every larger span up to 360 degrees, so the number of
\* true pixels does not decrease with the span.
C12_SpanSubset ==
    pc = "spanned" =>
        /\ ret.mask.on \subseteq ret.other.on
        /\ Cardinality(ret.mask.on) <= Cardinality(ret.other.on)

\* C12: a larger span that adds true pixels to a mask that has some.
C12_Witness ==
    /\ pc = "spanned"
    /\ ret.span > args.span
    /\ ret.mask.on # {}
    /\ ret.mask.on # ret.other.on

----------------------------------------------------------------------------
(* get_extraction_sequence and a first extraction of a block, over several *)
(* sample lists, device configurations and coords tables (SpecSequence).  *)

\* Largest number of rows of the coords table.
MaxRegions == 2

Well(drug, angle) == [drug |-> drug, angle |-> angle]
Sample(name, device) == [name |-> name, device |-> device, cohorts |-> "[]"]

\* block.samples: both samples on one device type; the second sample left
\* out; the second sample on another device type.
SeqSamples ==
    { <<Sample("S1", "DEV"), Sample("S2", "DEV")>>,
      <<Sample("S1", "DEV")>>,
      <<Sample("S1", "DEV"), Sample("S2", "DEV2")>> }

\* project.config["devices"]: the device of Devices; two levels; no wells
\* for level 1; one drug in two wells; a second device type; a level whose
\* well list is empty.
SeqDevices ==
    { Devices,
      << [name |-> "DEV",
          payload |-> << [level |-> 1, wells |-> <<Well("d1", 0), Well("d2", 180)>>],
                         [level |-> 2, wells |-> <<Well("d2", 90)>>] >>] >>,
      << [name |-> "DEV",
          payload |-> << [level |-> 2, wells |-> <<Well("d1", 0)>>] >>] >>,
      << [name |-> "DEV",
          payload |-> << [level |-> 1, wells |-> <<Well("d1", 0), Well("d1", 180)>>] >>] >>,
      << [name |-> "DEV",
          payload |-> << [level |-> 1, wells |-> <<Well("d1", 0), Well("d2", 180)>>] >>],
         [name |-> "DEV2",
          payload |-> << [level |-> 1, wells |-> <<Well("d2", 45)>>],
                         [level |-> 2, wells |-> <<>>] >>] >> }

\* The rows a coords table can hold: one per sample and level of the slide.
\* The device center of S2 on level 2 was dragged below the slide's lower
\* edge.
SeqRegions ==
    {[relpath |-> Slides[1].relpath, project |-> "P", block |-> "B",
      level |-> l, sample |-> sm, cohorts |-> "[]", panel |-> "HE",
      center_x |-> IF sm = "S1" THEN 33 ELSE 67,
      center_y |-> IF l = 1 THEN 40 ELSE IF sm = "S1" THEN 50 ELSE 100] :
        sm \in {"S1", "S2"}, l \in {1, 2}}

\* Tables whose rows are distinct.
SeqCoords ==
    {t \in SeqsOf(SeqRegions, 1, MaxRegions) :
        \A i, j \in 1..Len(t) : t[i] = t[j] => i = j}

SeqAngles ==
    { <<[sample |-> "S1", angle |-> -90], [sample |-> "S2", angle |-> 45]>>,
      <<[sample |-> "S1", angle |-> -90]>> }

InitSequence ==
    /\ IdleGui
    /\ IdleBlock
    /\ IdleMerge
    /\ IdleCrop
    /\ IdleMask
    /\ args \in [name : {"settings"}, samples : SeqSamples, devices : SeqDevices,
                 coords : SeqCoords, angles : SeqAngles]
    /\ ret = NoJob
    /\ pc = "sequence"

\* list(get_extraction_sequence(settings)): what the generator yields up to
\* its end or to the exception that ends it.
GetSequence ==
    /\ pc = "sequence"
    /\ ret' = [jobs |-> get_extraction_sequence(args.coords, args.samples,
                                                args.devices, args.angles)]
    /\ pc' = "listed"
    /\ UNCHANGED <<guiVars, mergeVars, cropVars, maskVars, blockVars, args>>

\* Extractor.extract(params) (extract.py:205-214) on a block that has no
\* region table yet, with these settings: extract_wedges runs through the
\* sequence; when it returns, the table is merged with the empty previous
\* table and saved; when it raises, nothing is saved.
ExtractFirst ==
    /\ pc = "sequence"
    /\ \E wedge \in RunWedges : \E saveEmpty \in BOOLEAN :
        LET regions_prev == BlockGet("IMAGES_COORDS_BOW", NoFile)
            run == ExtractJobs(get_extraction_sequence(args.coords, args.samples,
                                                       args.devices, args.angles),
                               wedge, saveEmpty,
                               [ok |-> TRUE, err |-> "none", files |-> {}, rows |-> <<>>])
        IN  ret' = [params |-> wedge,
                    run |-> run,
                    saved |-> IF run.ok
                              THEN [exists |-> TRUE,
                                    rows |-> update_translate(run.rows, regions_prev.table)]
                              ELSE NoFile]
    /\ pc' = "extracted"
    /\ UNCHANGED <<guiVars, mergeVars, cropVars, maskVars, blockVars, args>>

NextSequence == GetSequence \/ ExtractFirst

SpecSequence == InitSequence /\ [][NextSequence]_vars

----------------------------------------------------------------------------
(* Claims about the extraction sequence, checked under SpecSequence.       *)

\* The well list the settings configure for a region: that of the level of
\* the region in the payload of the device of the region's sample, when the
\* sample, the device and the level are all there.
WellsOf(r) ==
    LET smp == {k \in 1..Len(args.samples) : args.samples[k].name = r.sample}
        dev == {k \in 1..Len(args.devices) :
                    \E i \in smp : i = First(smp)
                        /\ args.devices[k].name = args.samples[i].device}
        lvl == IF dev = {} THEN {}
               ELSE {k \in 1..Len(args.devices[First(dev)].payload) :
                        args.devices[First(dev)].payload[k].level = r.level}
    IN  IF lvl = {} THEN [found |-> FALSE, wells |-> <<>>]
        ELSE [found |-> TRUE,
              wells |-> args.devices[First(dev)].payload[First(lvl)].wells]

\* The coarse angle the angles table holds for the region's sample.
AngleOf(r) ==
    LET ang == {k \in 1..Len(args.angles) : args.angles[k].sample = r.sample}
    IN  IF ang = {} THEN [found |-> FALSE, angle |-> 0]
        ELSE [found |-> TRUE, angle |-> args.angles[First(ang)].angle]

\* The number of wells configured for the rows before row i.
RECURSIVE WellsBefore(_)
WellsBefore(i) ==
    IF i <= 1 THEN 0
    ELSE WellsBefore(i - 1) + Len(WellsOf(args.coords[i - 1]).wells)

\* C14: when every row of the coords table has its wells and its angle
\* configured, get_extraction_sequence yields exactly one job per row and
\* well, in table order and within a row in the order of the wells; the job
\* has the row's relpath as source, the row's project, block, panel, level,
\* sample and cohorts with the well's drug, the row's center, and the
\* sample's coarse angle plus the well's angle.
C14_JobPerWell ==
    (pc = "listed"
     /\ \A i \in 1..Len(args.coords) :
            WellsOf(args.coords[i]).found /\ AngleOf(args.coords[i]).found) =>
        /\ Len(ret.jobs) = WellsBefore(Len(args.coords) + 1)
        /\ \A i \in 1..Len(args.coords) :
            LET r == args.coords[i]
                wells == WellsOf(r).wells
            IN  \A w \in 1..Len(wells) :
                    LET j == ret.jobs[WellsBefore(i) + w]
                    IN  /\ j.kind = "job"
                        /\ j.src = r.relpath
                        /\ j.fields = [project |-> r.project, block |-> r.block,
                                       panel |-> r.panel, level |-> r.level,
                                       sample |-> r.sample, cohorts |-> r.cohorts,
                                       drug |-> wells[w].drug]
                        /\ j.center = <<r.center_x, r.center_y>>
                        /\ j.angle = AngleOf(r).angle + wells[w].angle

\* C14: a table of two rows with well lists of different lengths, all of
\* whose jobs were yielded, some with a well angle that is not zero.
C14_Witness ==
    /\ pc = "listed"
    /\ Len(args.coords) = 2
    /\ \A i \in 1..2 : WellsOf(args.coords[i]).found /\ AngleOf(args.coords[i]).found
    /\ Len(WellsOf(args.coords[1]).wells) # Len(WellsOf(args.coords[2]).wells)
    /\ Len(ret.jobs) = 3
    /\ \E k \in 1..3 : ret.jobs[k].angle # AngleOf(args.coords[1]).angle

\* Row i is the first row for which the sample, its device or the level is
\* not configured, the rows before it having their wells and their angle.
FirstUnconfigured(i) ==
    /\ i \in 1..Len(args.coords)
    /\ ~WellsOf(args.coords[i]).found
    /\ \A k \in 1..(i - 1) :
        WellsOf(args.coords[k]).found /\ AngleOf(args.coords[k]).found

\* C15: when a row's sample is not in the sample list, or its device has no
\* payload, or the payload has nothing for the row's level, the generator
\* raises at that row, after the jobs of the rows before it: it neither ends
\* normally nor goes on to later rows; Extractor.extract then raises and
\* saves no region table.
C15_LookupFailureAborts ==
    \A i \in 1..Len(args.coords) :
        FirstUnconfigured(i) =>
            /\ pc = "listed" =>
                /\ Len(ret.jobs) = WellsBefore(i) + 1
                /\ ret.jobs[Len(ret.jobs)].kind = "error"
                /\ \A k \in 1..WellsBefore(i) : ret.jobs[k].kind = "job"
            /\ pc = "extracted" =>
                /\ ~ret.run.ok
                /\ ~ret.saved.exists

\* C15: an extraction that stopped at its second row, after writing the
\* crops of the first, and saved nothing.
C15_Witness ==
    /\ pc = "extracted"
    /\ FirstUnconfigured(2)
    /\ ret.run.files # {}
    /\ ret.run.err = "RuntimeError"
    /\ ~ret.saved.exists

\* C16 (as claimed): the region table one extraction run builds has no two
\* rows with the same identity key, whatever the device configuration.
C16_UniqueIdentityKeys ==
    (pc = "extracted" /\ ret.run.ok) => UniqueKeys(ret.saved.rows)

\* C16, the failing case: a saved table with two rows of one identity key,
\* whose crops were written to one file.
C16_Witness ==
    /\ pc = "extracted"
    /\ ret.saved.exists
    /\ ~UniqueKeys(ret.saved.rows)
    /\ Cardinality(ret.run.files) < Len(ret.saved.rows)

----------------------------------------------------------------------------
(* upsert called on its own (SpecUpsert).                                  *)

\* Largest number of rows of each of the two tables.
MaxRows == 2

\* Rows with two key columns and one value column; the rows of update carry
\* "old", the rows of using carry "new".
UpsertRows(v) ==
    {[level |-> l, sample |-> sm, value |-> v] : l \in {1, 2}, sm \in {"S1", "S2"}}

\* Tables without two rows of the same level and sample.
UpsertTables(v) ==
    {t \in SeqsOf(UpsertRows(v), 0, MaxRows) :
        \A i, j \in 1..Len(t) :
            (t[i].level = t[j].level /\ t[i].sample = t[j].sample) => i = j}

InitUpsert ==
    /\ IdleGui
    /\ IdleBlock
    /\ IdleMerge
    /\ IdleCrop
    /\ IdleMask
    /\ args \in [name : {"upsert"}, update : UpsertTables("old"),
                 using : UpsertTables("new"),
                 cols : {<<"level", "sample">>, <<"sample">>}]
    /\ ret = NoJob
    /\ pc = "upsert"

\* updated = upsert(update, using, cols)
Upsert ==
    /\ pc = "upsert"
    /\ ret' = upsert(args.update, args.using, args.cols)
    /\ pc' = "upserted"
    /\ UNCHANGED <<guiVars, mergeVars, cropVars, maskVars, blockVars, args>>

NextUpsert == Upsert

SpecUpsert == InitUpsert /\ [][NextUpsert]_vars

----------------------------------------------------------------------------
(* Claims about upsert, checked under SpecUpsert.                          *)

\* Rows a and b have the same tuple of values on the columns by.
SameKey(a, b, by) == \A k \in 1..Len(by) : a[by[k]] = b[by[k]]

Range(t) == {t[k] : k \in 1..Len(t)}

\* C17 (as claimed): upsert returns the rows of using together with the rows
\* of update whose key tuple on cols is the key tuple of no row of using,
\* and no other row, sorted by cols.
C17_UpsertByKeyTuple ==
    pc = "upserted" =>
        LET kept == {u \in Range(args.update) :
                        \A v \in Range(args.using) : ~SameKey(u, v, args.cols)}
        IN  /\ ret.ok
            /\ Range(ret.table) = Range(args.using) \cup kept
            /\ Len(ret.table) = Len(args.using) + Cardinality(kept)
            /\ \A i, j \in 1..Len(ret.table) :
                i < j => ~RowLess(ret.table[j], ret.table[i], args.cols)

\* C17, the failing case: a row of update is missing from the result
\* although no row of using has its key tuple.
C17_Witness ==
    /\ pc = "upserted"
    /\ \E u \in Range(args.update) :
        /\ \A v \in Range(args.using) : ~SameKey(u, v, args.cols)
        /\ u \notin Range(ret.table)

----------------------------------------------------------------------------
(* unpack (block.py:52-105) and unpack called on its own (SpecUnpack).     *)

\* Python values of the block configuration: None and a list of cohort
\* names; an integer count and a list of entries; a string entry and a dict
\* entry.  A key that is missing from a dict is missing from the record.
PyNone == [py |-> "None"]
PyList(items) == [py |-> "list", items |-> items]
PyInt(n) == [py |-> "int", n |-> n]
PyStr(str) == [py |-> "str", str |-> str]

\* bool(v) for None and for a list.
Truthy(v) == v.py = "list" /\ Len(v.items) > 0

\* get_sample_prefix() (utils/io.py): the default prefix.
sample_prefix == "SMP"

\* sample_cohorts or block_cohorts (block.py:81-82).
CohortsOf(s, block_cohorts) ==
    LET sample_cohorts == Get(s, "cohorts", PyNone)
    IN  IF Truthy(sample_cohorts) THEN sample_cohorts ELSE block_cohorts

\* The loop over a list of entries (block.py:76-103), from the entries left
\* and the samples appended so far.
RECURSIVE UnpackEntries(_, _, _)
UnpackEntries(entries, block, samples) ==
    IF Len(entries) = 0 THEN [ok |-> TRUE, samples |-> samples]
    ELSE
    LET s == Head(entries)
        block_cohorts == Get(block, "cohorts", PyNone)
    IN  IF s.py = "dict"
        THEN IF "name" \notin DOMAIN s THEN [ok |-> FALSE, err |-> "ValueError"]
             ELSE IF "device" \notin DOMAIN block /\ "device" \notin DOMAIN s
             THEN [ok |-> FALSE, err |-> "ValueError"]
             ELSE IF CohortsOf(s, block_cohorts) = PyNone
             THEN [ok |-> FALSE, err |-> "ValueError"]
             ELSE UnpackEntries(Tail(entries), block,
                    Append(samples,
                           [name |-> s.name,
                            device |-> IF "device" \notin DOMAIN block
                                       THEN s.device ELSE block.device,
                            cohorts |-> CohortsOf(s, block_cohorts)]))
        ELSE IF s.py = "str"
        THEN IF "device" \notin DOMAIN block
             THEN [ok |-> FALSE, err |-> "ValueError"]
             ELSE UnpackEntries(Tail(entries), block,
                    Append(samples,
                           [name |-> s.str, device |-> block.device,
                            cohorts |-> block_cohorts]))
        ELSE [ok |-> FALSE, err |-> "ValueError"]

\* unpack without the test of block.py:57-58: a count in a block without a
\* device yields no records instead of raising.
unpack_unchecked(block) ==
    IF block.samples.py = "list"
    THEN UnpackEntries(block.samples.items, block, <<>>)
    ELSE [ok |-> TRUE, samples |-> <<>>]

\* unpack(block) (block.py:52-105).
unpack(block) ==
    LET b_samples == block.samples
    IN  IF b_samples.py = "int"
        THEN IF "device" \notin DOMAIN block
             THEN [ok |-> FALSE, err |-> "ValueError"]
             ELSE [ok |-> TRUE,
                   samples |-> [k \in 1..b_samples.n |->
                                   [name |-> sample_prefix \o ToString(k),
                                    device |-> block.device,
                                    cohorts |-> Get(block, "cohorts", PyNone)]]]
        ELSE IF b_samples.py = "list"
        THEN UnpackEntries(b_samples.items, block, <<>>)
        ELSE [ok |-> TRUE, samples |-> <<>>]

\* Largest number of samples of a block.
MaxSamples == 2

\* The entries of a sample list: strings, dicts with and without a device
\* and cohorts of their own, a dict without a name, and a number.
Entries ==
    {PyStr("a"), PyStr("b"), [py |-> "dict", cohorts |-> PyList(<<"A">>)], PyInt(7)}
    \cup {[py |-> "dict", name |-> "c"]}
    \cup {[py |-> "dict", name |-> "c", device |-> "DEV2"]}
    \cup {[py |-> "dict", name |-> "c", cohorts |-> c] :
            c \in {PyList(<<>>), PyList(<<"A">>)}}
    \cup {[py |-> "dict", name |-> "c", device |-> "DEV2", cohorts |-> c] :
            c \in {PyList(<<>>), PyList(<<"A">>)}}

\* block["samples"]: a count, a list of entries (an empty one included), or
\* a value that is neither, such as a single name.
SampleConfigs ==
    {PyInt(n) : n \in 0..MaxSamples}
    \cup {PyList(l) : l \in SeqsOf(Entries, 0, MaxSamples)}
    \cup {PyStr("a")}

\* The block with and without a device and cohorts of its own.
Blocks ==
    {[samples |-> sc] : sc \in SampleConfigs}
    \cup {[samples |-> sc, device |-> "DEV"] : sc \in SampleConfigs}
    \cup {[samples |-> sc, cohorts |-> c] :
            sc \in SampleConfigs, c \in {PyList(<<>>), PyList(<<"B">>)}}
    \cup {[samples |-> sc, device |-> "DEV", cohorts |-> c] :
            sc \in SampleConfigs, c \in {PyList(<<>>), PyList(<<"B">>)}}

InitUnpack ==
    /\ IdleGui
    /\ IdleBlock
    /\ IdleMerge
    /\ IdleCrop
    /\ IdleMask
    /\ args \in Blocks
    /\ ret = NoJob
    /\ pc = "unpack"

\* samples = unpack(block)
Unpack ==
    /\ pc = "unpack"
    /\ ret' = unpack(args)
    /\ pc' = "unpacked"
    /\ UNCHANGED <<guiVars, mergeVars, cropVars, maskVars, blockVars, args>>

NextUnpack == Unpack

SpecUnpack == InitUnpack /\ [][NextUnpack]_vars

----------------------------------------------------------------------------
(* Claims about unpack, checked under SpecUnpack.                          *)

\* The entry names a sample and the configuration gives it a device and
\* cohorts: a string entry in a block with a device, or a dict entry with a
\* name, a device of its own or of the block, and cohorts of its own or of
\* the block.
EntryConfigured(s, block) ==
    \/ s.py = "str" /\ "device" \in DOMAIN block
    \/ /\ s.py = "dict"
       /\ "name" \in DOMAIN s
       /\ "device" \in DOMAIN block \/ "device" \in DOMAIN s
       /\ "cohorts" \in DOMAIN block \/ "cohorts" \in DOMAIN s

\* The record the claim gives for an entry.
EntryRecord(s, block) ==
    [name |-> IF s.py = "str" THEN s.str ELSE s.name,
     device |-> IF "device" \in DOMAIN block THEN block.device ELSE s.device,
     cohorts |-> IF "cohorts" \in DOMAIN s THEN s.cohorts
                 ELSE Get(block, "cohorts", PyNone)]

\* C18 (as claimed): for a count n in a block with a device, unpack returns
\* the records named prefix+1 .. prefix+n with the block's device and
\* cohorts; for a list of configured entries it returns one record per
\* entry, in order, with the entry's name, the block's device when it has
\* one and otherwise the entry's, and the entry's cohorts when given and
\* otherwise the block's.
C18_UnpackRecords ==
    pc = "unpacked" =>
        /\ (args.samples.py = "int" /\ "device" \in DOMAIN args) =>
            /\ ret.ok
            /\ Len(ret.samples) = args.samples.n
            /\ \A k \in 1..args.samples.n :
                ret.samples[k] = [name |-> sample_prefix \o ToString(k),
                                  device |-> args.device,
                                  cohorts |-> Get(args, "cohorts", PyNone)]
        /\ (args.samples.py = "list"
            /\ \A k \in 1..Len(args.samples.items) :
                    EntryConfigured(args.samples.items[k], args)) =>
            /\ ret.ok
            /\ Len(ret.samples) = Len(args.samples.items)
            /\ \A k \in 1..Len(args.samples.items) :
                ret.samples[k] = EntryRecord(args.samples.items[k], args)

\* C18, the failing case: a dict entry that gives an empty list of cohorts in
\* a block with cohorts of its own comes back with the block's cohorts.
C18_Witness ==
    /\ pc = "unpacked"
    /\ ret.ok
    /\ \E k \in 1..Len(ret.samples) :
        /\ args.samples.py = "list"
        /\ args.samples.items[k].py = "dict"
        /\ "cohorts" \in DOMAIN args.samples.items[k]
        /\ args.samples.items[k].cohorts = PyList(<<>>)
        /\ ret.samples[k].cohorts = PyList(<<"B">>)

\* C18, for entries whose own cohorts are not empty: the same statement
\* holds for the counts and for the lists in which no dict entry gives an
\* empty list of cohorts.
C18_UnpackRecordsNonEmpty ==
    (pc = "unpacked"
     /\ args.samples.py = "list" =>
            \A k \in 1..Len(args.samples.items) :
                ~(/\ args.samples.items[k].py = "dict"
                  /\ "cohorts" \in DOMAIN args.samples.items[k]
                  /\ args.samples.items[k].cohorts = PyList(<<>>))) =>
        C18_UnpackRecords

----------------------------------------------------------------------------
(* Claims about the conversion of microns to pixels, under SpecCrop.       *)

RadiusKeys == {"radius_inner", "radius_outer"}

\* A radius parameter that the wedge lacks or gives as None.
Unusable(wedge, key) == key \notin DOMAIN wedge \/ wedge[key] = RadiusNone

\* The wedge with calc_bbox's default in place of every unusable radius.
WithDefaults(wedge) ==
    [key \in DOMAIN wedge \cup RadiusKeys |->
        IF key \in RadiusKeys /\ Unusable(wedge, key)
        THEN (IF key = "radius_inner" THEN 400 ELSE 800)
        ELSE IF key \in RadiusKeys THEN wedge[key] \div job.mpp
        ELSE wedge[key]]

\* C19: microns2pixels divides each radius that is present and numeric by
\* mpp and skips, without raising, one that is absent or None; extract_image
\* of a wedge with such a radius then gives what calc_bbox gives with its
\* default for that radius.
C19_MissingRadiusSkipped ==
    /\ pc = "converted" =>
        /\ props.ok
        /\ \A key \in RadiusKeys :
            IF key \notin DOMAIN job.wedge THEN key \notin DOMAIN props.dct
            ELSE IF job.wedge[key] = RadiusNone
            THEN props.dct[key] = RadiusNone
            ELSE props.dct[key] = job.wedge[key] \div job.mpp
    /\ (pc = "extracted"
        /\ \E key \in RadiusKeys : Unusable(job.wedge, key)) =>
        \A saveEmpty \in BOOLEAN :
            LET dflt == extract_image(job.dims, 1, job.center, job.angle,
                                      WithDefaults(job.wedge), saveEmpty)
            IN  props.ok = dflt.ok
                /\ (props.ok => props.oxy = dflt.oxy /\ props.dims = dflt.dims)
                /\ (~props.ok => props.err = dflt.err)

\* extract_image was given a wedge without radius_inner and raised KeyError.
C19_Witness ==
    /\ pc = "extracted"
    /\ "radius_inner" \notin DOMAIN job.wedge
    /\ ~props.ok
    /\ props.err = "KeyError"

\* C19, the part that holds: a radius that is present is divided by mpp when
\* numeric and left alone when None, and microns2pixels raises exactly when a
\* radius is absent.
C19_PresentRadiusConverted ==
    pc = "converted" =>
        /\ props.ok <=> RadiusKeys \subseteq DOMAIN job.wedge
        /\ props.ok =>
            \A key \in RadiusKeys :
                IF job.wedge[key] = RadiusNone
                THEN props.dct[key] = RadiusNone
                ELSE props.dct[key] = job.wedge[key] \div job.mpp

----------------------------------------------------------------------------
(* Claims about crops of no area, under SpecSequence.                      *)

\* The box calc_bbox gives extract_image for the k-th job of the run.
BoxOfJob(k) ==
    LET it == get_extraction_sequence(args.coords, args.samples,
                                      args.devices, args.angles)[k]
        sl == Slides[SlideAt(it.src)]
        px == microns2pixels(ret.params, <<"radius_inner", "radius_outer">>,
                             sl.mpp).dct
    IN  calc_bbox(sl.dims, it.center, it.angle, px)

NoArea(size) == size[1] <= 0 \/ size[2] <= 0

C20_NegativeBoxRefused ==
    (pc = "extracted" /\ props.ok) =>
        props.dims[1] >= 0 /\ props.dims[2] >= 0

----------------------------------------------------------------------------
(* pol2cart on its own (SpecPol).                                          *)

\* Angles of up to MaxTurns full turns either way, on the 45-degree grid.
MaxTurns == 2
MaxR == 3
Thetas == {t \in (-360 * MaxTurns)..(360 * MaxTurns) : t % 45 = 0}

InitPol ==
    /\ IdleGui
    /\ IdleBlock
    /\ IdleMerge
    /\ IdleCrop
    /\ IdleMask
    /\ args \in [name : {"pol2cart"}, r : 0..MaxR, theta : Thetas]
    /\ ret = NoJob
    /\ pc = "pol"

\* x, y = pol2cart(r, theta): `at` is theta after line 19, the angle handed
\* to math.radians and then to cos and sin.
Pol2Cart ==
    /\ pc = "pol"
    /\ ret' = [at |-> NormDeg(args.theta), xy |-> pol2cart(args.r, args.theta)]
    /\ pc' = "cart"
    /\ UNCHANGED <<guiVars, mergeVars, cropVars, maskVars, blockVars, args>>

NextPol == Pol2Cart

SpecPol == InitPol /\ [][NextPol]_vars

\* C21 as stated: cos and sin are evaluated at the representative of theta
\* modulo 360 that lies in (-180, 180], so that 180, 540 and -180 are all
\* evaluated at 180.
C21_EvaluatedInUpperHalfOpen ==
    pc = "cart" =>
        /\ ret.at \in (-179)..180
        /\ (ret.at - args.theta) % 360 = 0

\* C21: cos and sin are evaluated at the representative of theta modulo 360
\* that lies in [-180, 180): 180, 540 and -180 are all evaluated at -180,
\* never at 180, and no input is evaluated outside that range.
C21_EvaluatedInLowerHalfOpen ==
    pc = "cart" =>
        /\ ret.at \in (-180)..179
        /\ (ret.at - args.theta) % 360 = 0
        /\ ret.xy = <<args.r * Cos1000(ret.at), args.r * Sin1000(ret.at)>>

\* pol2cart of 540 degrees was evaluated at -180.
C21_Witness ==
    /\ pc = "cart"
    /\ args.theta = 540
    /\ args.r > 0
    /\ ret.at = -180

----------------------------------------------------------------------------
(* Claims about what unpack refuses, under SpecUnpack.                     *)

\* An entry of a sample list for which the claim has unpack raise.
EntryRefused(s, block) ==
    \/ s.py \notin {"str", "dict"}
    \/ s.py = "dict" /\ "name" \notin DOMAIN s
    \/ "device" \notin DOMAIN block /\ (s.py = "str" \/ "device" \notin DOMAIN s)
    \/ s.py = "dict" /\ "cohorts" \notin DOMAIN s /\ "cohorts" \notin DOMAIN block

\* C22: unpack raises ValueError, and so returns no list at all, when the
\* count is an integer and the block has no device, or when some entry of
\* the list is a dict without a name, has no device on the block or on
\* itself, is a dict with cohorts neither on itself nor on the block, or is
\* neither a string nor a dict.
C22_RefusedRaises ==
    (/\ pc = "unpacked"
     /\ \/ args.samples.py = "int" /\ "device" \notin DOMAIN args
        \/ /\ args.samples.py = "list"
           /\ \E k \in 1..Len(args.samples.items) :
                   EntryRefused(args.samples.items[k], args)) =>
            /\ ~ret.ok
            /\ ret.err = "ValueError"
            /\ "samples" \notin DOMAIN ret

\* unpack raised at the second entry of a list whose first entry it had
\* already turned into a record.
C22_Witness ==
    /\ pc = "unpacked"
    /\ ~ret.ok
    /\ args.samples.py = "list"
    /\ Len(args.samples.items) = 2
    /\ ~EntryRefused(args.samples.items[1], args)
    /\ EntryRefused(args.samples.items[2], args)

----------------------------------------------------------------------------
(* SlideArrowAnnotationModel (annotate.py:54-96) and its set called on its *)
(* own (SpecSet).                                                          *)

\* The slides of a block with two levels.
AnnSlides ==
    << [project |-> "P", block |-> "B", panel |-> "HE", level |-> 1,
        relpath |-> "P/B/0_slides/P_B_LVL1_HE.svs",
        dims |-> <<ImgW, ImgH>>, mpp |-> 10],
       [project |-> "P", block |-> "B", panel |-> "HE", level |-> 2,
        relpath |-> "P/B/0_slides/P_B_LVL2_HE.svs",
        dims |-> <<ImgW, ImgH>>, mpp |-> 10] >>

\* The loop body of set (annotate.py:80-92) with the rows of every slide
\* taken for the rows of the one shown.
set_one_any_slide(c_df, a_df, relpath, interactor) ==
    [coords |-> [k \in 1..Len(c_df) |->
                    IF c_df[k].sample = interactor.id
                    THEN [c_df[k] EXCEPT !.center_x = interactor.cxy[1],
                                         !.center_y = interactor.cxy[2]]
                    ELSE c_df[k]],
     angles |-> [k \in 1..Len(a_df) |->
                    IF a_df[k].sample = interactor.id
                    THEN [a_df[k] EXCEPT !.angle = interactor.angle]
                    ELSE a_df[k]]]

\* The loop body of set (annotate.py:80-92): the center goes to the coords
\* rows of this relpath and sample, the angle to the angles rows of the
\* sample.
set_one(c_df, a_df, relpath, interactor) ==
    [coords |-> [k \in 1..Len(c_df) |->
                    IF c_df[k].relpath = relpath /\ c_df[k].sample = interactor.id
                    THEN [c_df[k] EXCEPT !.center_x = interactor.cxy[1],
                                         !.center_y = interactor.cxy[2]]
                    ELSE c_df[k]],
     angles |-> [k \in 1..Len(a_df) |->
                    IF a_df[k].sample = interactor.id
                    THEN [a_df[k] EXCEPT !.angle = interactor.angle]
                    ELSE a_df[k]]]

\* SlideArrowAnnotationModel.set(slide) (annotate.py:76-92), from the
\* interactors left.
RECURSIVE set_from(_, _, _, _)
set_from(c_df, a_df, relpath, interactors) ==
    IF Len(interactors) = 0 THEN [coords |-> c_df, angles |-> a_df]
    ELSE LET one == set_one(c_df, a_df, relpath, Head(interactors))
         IN  set_from(one.coords, one.angles, relpath, Tail(interactors))

\* What the view hands back for a sample: a center and an angle.
SetMarks == {[cxy |-> <<50, 40>>, angle |-> 0], [cxy |-> <<90, 40>>, angle |-> 45]}

\* The interactors of a call: any of the samples, each at most once.
SetInteractors ==
    {l \in SeqsOf({[id |-> Samples[i].name, cxy |-> m.cxy, angle |-> m.angle] :
                        i \in 1..Len(Samples), m \in SetMarks}, 0, Len(Samples)) :
        \A i, j \in 1..Len(l) : l[i].id = l[j].id => i = j}

\* The model as annotate_slides builds it from what Block.get returns for a
\* block without saved annotations.
InitSet ==
    /\ IdleGui
    /\ IdleMerge
    /\ IdleCrop
    /\ IdleMask
    /\ coords = [exists |-> TRUE, rows |-> init_coords_slides(AnnSlides, Samples)]
    /\ angles = [exists |-> TRUE, rows |-> init_angles_coarse(Samples)]
    /\ bow_file = NoFile
    /\ regions_dir = {}
    /\ last = [name |-> "none"]
    /\ args = NoJob
    /\ ret = NoJob
    /\ pc = "model"

\* model.set(slide) for one of the model's relpaths.
ModelSet ==
    /\ pc = "model"
    /\ \E k \in 1..Len(AnnSlides) : \E interactors \in SetInteractors :
        LET after == set_from(coords.rows, angles.rows, AnnSlides[k].relpath,
                              interactors)
        IN  /\ args' = [name |-> "set", id |-> AnnSlides[k].relpath,
                        interactors |-> interactors]
            /\ coords' = [coords EXCEPT !.rows = after.coords]
            /\ angles' = [angles EXCEPT !.rows = after.angles]
    /\ UNCHANGED <<guiVars, mergeVars, cropVars, maskVars, bow_file, regions_dir, last,
                   ret, pc>>

NextSet == ModelSet

SpecSet == InitSet /\ [][NextSet]_vars

\* The interactor of a sample in the last call, if it was listed.
Listed(sample) == \E i \in 1..Len(args.interactors) : args.interactors[i].id = sample
ListedAs(sample) ==
    args.interactors[CHOOSE i \in 1..Len(args.interactors) :
                        args.interactors[i].id = sample]

\* One call of set changes center_x and center_y, and nothing else, in
\* the coords rows of its slide and of the listed samples, leaves every
\* other coords row as it was, and writes each listed sample's angle to the
\* angles table.
C23_SetFrame ==
    [][ /\ Len(coords'.rows) = Len(coords.rows)
        /\ \A k \in 1..Len(coords.rows) :
            IF coords.rows[k].relpath = args'.id /\ Listed(coords.rows[k].sample)'
            THEN coords'.rows[k] =
                    [coords.rows[k] EXCEPT
                        !.center_x = ListedAs(coords.rows[k].sample)'.cxy[1],
                        !.center_y = ListedAs(coords.rows[k].sample)'.cxy[2]]
            ELSE coords'.rows[k] = coords.rows[k]
        /\ Len(angles'.rows) = Len(angles.rows)
        /\ \A k \in 1..Len(angles.rows) :
            IF Listed(angles.rows[k].sample)'
            THEN angles'.rows[k] =
                    [angles.rows[k] EXCEPT
                        !.angle = ListedAs(angles.rows[k].sample)'.angle]
            ELSE angles'.rows[k] = angles.rows[k] ]_vars

\* After any sequence of calls every sample has exactly one row of the
\* angles table, so one angle for all the slides of the block.
C23_OneAnglePerSample ==
    pc = "model" =>
        \A i \in 1..Len(Samples) :
            Cardinality({k \in 1..Len(angles.rows) :
                            angles.rows[k].sample = Samples[i].name}) = 1

\* A call for the second slide moved S1 there and turned S1, while S1 on the
\* first slide is where an earlier call had put it, somewhere else.
C23_Witness ==
    /\ pc = "model"
    /\ args # NoJob
    /\ args.id = AnnSlides[2].relpath
    /\ Listed("S1")
    /\ ~Listed("S2")
    /\ \E k, m \in 1..Len(coords.rows) :
        /\ coords.rows[k].relpath = AnnSlides[1].relpath
        /\ coords.rows[m].relpath = AnnSlides[2].relpath
        /\ coords.rows[k].sample = "S1"
        /\ coords.rows[m].sample = "S1"
        /\ <<coords.rows[k].center_x, coords.rows[k].center_y>> = <<50, 40>>
        /\ <<coords.rows[m].center_x, coords.rows[m].center_y>> = <<90, 40>>
    /\ \E k \in 1..Len(angles.rows) :
        angles.rows[k].sample = "S1" /\ angles.rows[k].angle = 45

\* C23: set for one slide changes the centers only in the coords rows of
\* that slide and of the listed samples and writes each listed sample's
\* angle to the angles table; after any sequence of calls a sample has one
\* angle, the same for every slide, and the other slides' centers are as
\* they were.
C23_SetOneSlide == C23_SetFrame /\ []C23_OneAnglePerSample

----------------------------------------------------------------------------
(* Block.get(IMAGES_COORDS) for a block whose slides changed after the     *)
(* annotations were saved (SpecGet).                                       *)

\* The slide of a level and a panel.
SlideOf(level, panel) ==
    [project |-> "P", block |-> "B", panel |-> panel, level |-> level,
     relpath |-> "P/B/0_slides/P_B_LVL" \o ToString(level) \o "_" \o panel \o ".svs",
     dims |-> <<ImgW, ImgH>>, mpp |-> 10]

\* The slides a block can hold, in the order translate() lists them.
AllSlides == <<SlideOf(1, "HE"), SlideOf(1, "IHC"), SlideOf(2, "HE"), SlideOf(2, "IHC")>>

\* The slides of AllSlides at the positions S, in order.
RECURSIVE SlidesAt(_, _)
SlidesAt(S, k) ==
    IF k > Len(AllSlides) THEN <<>>
    ELSE (IF k \in S THEN <<AllSlides[k]>> ELSE <<>>) \o SlidesAt(S, k + 1)

\* Where the user put every arrow before saving.
SavedCenter == <<1, 1>>

\* The annotation file saved when the block held the slides at S: the table
\* Block.get gave then, with the centers the user set.
SavedCoords(S) ==
    IF S = {} THEN NoFile
    ELSE [exists |-> TRUE,
          rows |-> LET t == init_coords_slides(SlidesAt(S, 1), Samples)
                   IN  [k \in 1..Len(t) |->
                            [t[k] EXCEPT !.center_x = SavedCenter[1],
                                         !.center_y = SavedCenter[2]]]]

\* Block.get(Field.IMAGES_COORDS) (block.py:254-262) for a block with these
\* slides and this annotation file.
get_coords(slides, file) ==
    LET df_init == init_coords_slides(slides, Samples)
    IN  IF file.exists
        THEN upsert(df_init, file.rows, columns_upsert("IMAGES_COORDS"))
        ELSE [ok |-> TRUE, table |-> df_init]

\* A block with at least one slide now, and a file saved when it held some
\* of them (or no file).
InitGet ==
    /\ IdleGui
    /\ IdleBlock
    /\ IdleMerge
    /\ IdleCrop
    /\ IdleMask
    /\ \E now \in SUBSET (1..Len(AllSlides)) : \E before \in SUBSET now :
        /\ now # {}
        /\ args = [name |-> "get", slides |-> SlidesAt(now, 1),
                   file |-> SavedCoords(before)]
    /\ ret = NoJob
    /\ pc = "get"

\* coords = block.get(Field.IMAGES_COORDS)
GetCoords ==
    /\ pc = "get"
    /\ ret' = get_coords(args.slides, args.file)
    /\ pc' = "got"
    /\ UNCHANGED <<guiVars, mergeVars, cropVars, maskVars, blockVars, args>>

NextGet == GetCoords

SpecGet == InitGet /\ [][NextGet]_vars

\* The rows of a table for a slide and a sample.
RowsOf(tbl, relpath, sample) ==
    {k \in 1..Len(tbl) : tbl[k].relpath = relpath /\ tbl[k].sample = sample}

\* C24: the table Block.get(IMAGES_COORDS) returns has a row for every slide
\* and sample of the block: the saved row when the file has one for the
\* pair, and the initial row otherwise.
C24_RowForEveryPair ==
    pc = "got" =>
        /\ ret.ok
        /\ \A k \in 1..Len(args.slides) : \A i \in 1..Len(Samples) :
            LET relpath == args.slides[k].relpath
                sample == Samples[i].name
                got == RowsOf(ret.table, relpath, sample)
                saved == IF args.file.exists
                         THEN RowsOf(args.file.rows, relpath, sample) ELSE {}
                df_init == init_coords_slides(args.slides, Samples)
            IN  /\ got # {}
                /\ \A g \in got :
                    IF saved # {}
                    THEN \E s \in saved : ret.table[g] = args.file.rows[s]
                    ELSE \E d \in RowsOf(df_init, relpath, sample) :
                            ret.table[g] = df_init[d]

\* A slide that was added after the file was saved has no row in the table
\* Block.get returns.
C24_Witness ==
    /\ pc = "got"
    /\ ret.ok
    /\ args.file.exists
    /\ \E k \in 1..Len(args.slides) :
        /\ \A s \in 1..Len(args.file.rows) :
                args.file.rows[s].relpath # args.slides[k].relpath
        /\ \A g \in 1..Len(ret.table) :
                ret.table[g].relpath # args.slides[k].relpath

\* C24, the part that holds: every saved row is returned as saved, and the
\* initial row of a pair is returned when its level or its panel is one that
\* no saved row has.
C24_RowUnlessValuesSaved ==
    pc = "got" =>
        /\ ret.ok
        /\ args.file.exists =>
            \A s \in 1..Len(args.file.rows) :
                \E g \in 1..Len(ret.table) : ret.table[g] = args.file.rows[s]
        /\ \A k \in 1..Len(args.slides) : \A i \in 1..Len(Samples) :
            (\/ ~args.file.exists
             \/ \A s \in 1..Len(args.file.rows) :
                    args.file.rows[s].level # args.slides[k].level
             \/ \A s \in 1..Len(args.file.rows) :
                    args.file.rows[s].panel # args.slides[k].panel)
            => \E g \in 1..Len(ret.table) :
                /\ ret.table[g].relpath = args.slides[k].relpath
                /\ ret.table[g].sample = Samples[i].name
                /\ <<ret.table[g].center_x, ret.table[g].center_y>> # SavedCenter

----------------------------------------------------------------------------
(* Claims about the saved region table and the crops on disk, under Spec.  *)

\* C25: in every state of the block, the state left by a run of
\* Extractor.extract that stopped with an error included, every row of the
\* saved IMAGES_COORDS_BOW table names a crop that exists under 1_regions.
C25_SavedRowsHaveCrops ==
    bow_file.exists =>
        \A i \in 1..Len(bow_file.rows) : bow_file.rows[i].relpath \in regions_dir

\* A run of extract stopped with an error after Block.clean had removed the
\* crops, and the table saved by the run before it still lists them.
C25_Witness ==
    /\ last.name = "extract"
    /\ last.status # "ok"
    /\ bow_file.exists
    /\ Len(bow_file.rows) > 0
    /\ \A i \in 1..Len(bow_file.rows) : bow_file.rows[i].relpath \notin regions_dir

\* C25, the part that holds: the table a run saves when it goes through
\* lists only crops that the run wrote.
C25_CompletedRunHasCrops ==
    (last.name = "extract" /\ last.status = "ok") =>
        /\ bow_file.exists
        /\ \A i \in 1..Len(bow_file.rows) : bow_file.rows[i].relpath \in regions_dir

----------------------------------------------------------------------------
(* get_filepath called for two jobs of one run (SpecPath).                 *)

\* Highest level of a slide.
MaxLevel == 2

\* int(tag[len("LVL"):]) (extract.py:132): the number whose decimal digits
\* follow the three letters.
LevelOfTag(tag) == CHOOSE n \in 0..(10 * MaxLevel) : "LVL" \o ToString(n) = tag

\* The fields dictionary as get_filepath leaves it (extract.py:122, 132):
\* the level is replaced by its tag and then by the tag's number.
fields_after(fields) ==
    [fields EXCEPT !.level = LevelOfTag(WithLevelTag(fields).level)]

\* The identity fields of the jobs: sample and drug names are free text of
\* the project configuration and may hold an underscore.
PathFields ==
    {[project |-> "P", block |-> "B", panel |-> pn, level |-> l,
      sample |-> sm, cohorts |-> "[]", drug |-> dr] :
        pn \in {"HE", "IHC"}, l \in 1..MaxLevel,
        sm \in {"S", "S_1"}, dr \in {"x", "1_x"}}

\* project.config["output_order"].
OutputOrders == {<<"sample">>, <<"panel", "level">>, <<"sample", "drug">>, <<>>}

InitPath ==
    /\ IdleGui
    /\ IdleBlock
    /\ IdleMerge
    /\ IdleCrop
    /\ IdleMask
    /\ args \in [name : {"get_filepath"}, output_order : OutputOrders,
                 fields : PathFields, other : PathFields]
    /\ ret = NoJob
    /\ pc = "path"

\* dst = get_filepath(Step.S1, region["fields"], output_order) for two jobs
\* of the loop of extract_wedges (extract.py:228-230).
GetFilepath ==
    /\ pc = "path"
    /\ ret' = [dst |-> get_filepath(StepS1, args.fields, args.output_order),
               fields |-> fields_after(args.fields),
               other_dst |-> get_filepath(StepS1, args.other, args.output_order)]
    /\ pc' = "pathed"
    /\ UNCHANGED <<guiVars, mergeVars, cropVars, maskVars, blockVars, args>>

NextPath == GetFilepath

SpecPath == InitPath /\ [][NextPath]_vars

\* The identity key of a fields dictionary.
KeyOf(fields) == [k \in 1..Len(cols) |-> fields[cols[k]]]

\* C26: for a fixed output_order, two jobs with different identity keys get
\* different file paths, whatever the names hold, and get_filepath leaves
\* the fields dictionary as it was given.
C26_DistinctKeysDistinctPaths ==
    pc = "pathed" =>
        /\ KeyOf(args.fields) # KeyOf(args.other) => ret.dst # ret.other_dst
        /\ ret.fields = args.fields

\* Two jobs with different keys, of samples S_1 and S, got the same path.
C26_Witness ==
    /\ pc = "pathed"
    /\ args.fields.sample = "S_1"
    /\ args.other.sample = "S"
    /\ args.fields.level = args.other.level
    /\ ret.dst = ret.other_dst

\* C26, the parts that hold: the fields dictionary is left as given, and
\* the paths of different keys differ when output_order names the sample.
C26_DistinctUnderSampleDirectory ==
    pc = "pathed" =>
        /\ ret.fields = args.fields
        /\ (KeyOf(args.fields) # KeyOf(args.other)
            /\ \E k \in 1..Len(args.output_order) : args.output_order[k] = "sample")
            => ret.dst # ret.other_dst

----------------------------------------------------------------------------
(* The annotation windows: RegionBowAnnotationModel and its presenter       *)
(* (adjust.py:34-261), SlideArrowAnnotationModel and its presenter          *)
(* (annotate.py:54-279), driven by the window's buttons and shortcuts       *)
(* (SpecPresent).  No interactor is moved: what the view hands back on a    *)
(* save is what render gave it.                                             *)

\* Largest number of rows of a region table.
MaxItems == 3

\* get_thumbnail(...)["factor"] (utils/image.py:44-50): the size of the image
\* over the size of the screen area, as a fraction; below 1 for an image
\* smaller than the screen.
Factors ==
    {[num |-> 1, den |-> 1], [num |-> 2, den |-> 1], [num |-> 3, den |-> 1],
     [num |-> 1, den |-> 2]}
NoFactor == [num |-> 0, den |-> 0]

\* int(round(n / d)) for n >= 0 and d > 0: Python rounds halves to even.
RoundDiv(n, d) ==
    LET q == n \div d
        r == n % d
    IN  IF 2 * r < d THEN q
        ELSE IF 2 * r > d THEN q + 1
        ELSE IF q % 2 = 0 THEN q ELSE q + 1

\* cx * factor, cy * factor rounded (adjust.py:199-202, annotate.py:226-229),
\* the factor being num / den.
scale_xy(xy, num, den) == <<RoundDiv(xy[1] * num, den), RoundDiv(xy[2] * num, den)>>

\* The elements of a list in the order of their first occurrence.
RECURSIVE Unique(_)
Unique(seq) ==
    IF Len(seq) = 0 THEN <<>>
    ELSE LET init == Unique(SubSeq(seq, 1, Len(seq) - 1))
             x == seq[Len(seq)]
         IN  IF \E k \in 1..Len(init) : init[k] = x THEN init ELSE Append(init, x)

\* sorted(list(set(regions["relpath"]))) (adjust.py:37).  The relpaths of the
\* model's rows differ in sample and drug only and sort as those do.
sorted_relpaths(regions) ==
    LET s == SortBy(regions, <<"sample", "drug">>)
    IN  Unique([k \in 1..Len(s) |-> s[k].relpath])

\* coords["relpath"].unique() (annotate.py:58).
unique_relpaths(c_df) == Unique([k \in 1..Len(c_df) |-> c_df[k].relpath])

\* n_regions (adjust.py:70-72): the number of rows; n_slides
\* (annotate.py:94-96): the number of relpaths.
n_items(m) == IF m.kind = "regions" THEN Len(m.regions) ELSE Len(m.relpaths)

\* is_first and is_last of both presenters.
is_first(st) == st.ind = 0
is_last(m, st) == st.ind = n_items(m) - 1

\* 100 * cos and 100 * sin of the angle, in thousandths, added to the center
\* (angles_to_coords, annotate.py:205-214).
angles_to_coords(cxy, angle) ==
    LET d == pol2cart(100, angle)
    IN  <<cxy[1] * 1000 + d[1], cxy[2] * 1000 + d[2]>>

\* round(angle, 1) of cart2pol(wx - cx, wy - cy) (annotate.py:216-223) for a
\* head on the 45-degree grid around the center: math.atan2 gives an angle
\* in (-180, 180].  A head that pol2cart put at -180 degrees has dy =
\* 100 * sin(-pi), about -1.2e-14, which the sum cy + dy keeps or loses
\* with the size of cy: atan2 then gives -180 or 180.
coords_to_angle(cxy, wxy) ==
    LET dx == wxy[1] - cxy[1] * 1000
        dy == wxy[2] - cxy[2] * 1000
        t == CHOOSE a \in {-135, -90, -45, 0, 45, 90, 135, 180} :
                Sgn(Cos1000(a)) = Sgn(dx) /\ Sgn(Sin1000(a)) = Sgn(dy)
    IN  IF t = 180 THEN {-180, 180} ELSE {t}

\* model.get(index) and the rest of render (adjust.py:217-243,
\* annotate.py:238-261) from the presenter's state: the state and the view
\* it leaves.  An index past the relpaths raises IndexError before anything
\* is touched; a region of several rows makes int(round(...)) of scale raise
\* TypeError after the id and the factor were stored.
render(m, st, v) ==
    IF st.ind + 1 > Len(m.relpaths)
    THEN [state |-> [st EXCEPT !.err = "IndexError"], view |-> v]
    ELSE
    LET relpath == m.relpaths[st.ind + 1]
        f == m.factor
        st2 == [st EXCEPT !.id = relpath, !.factor = f, !.err = "none"]
    IN  IF m.kind = "regions"
        THEN LET rows == {k \in 1..Len(m.regions) : m.regions[k].relpath = relpath}
                 r == m.regions[CHOOSE k \in rows : TRUE]
             IN  IF Cardinality(rows) > 1
                 THEN [state |-> [st2 EXCEPT !.err = "TypeError"], view |-> v]
                 ELSE [state |-> st2,
                       view |-> [interactors |->
                                    << [id |-> "0",
                                        cxy |-> scale_xy(<<r.center_x, r.center_y>>,
                                                         f.den, f.num),
                                        wxy |-> scale_xy(<<r.well_x, r.well_y>>,
                                                         f.den, f.num)] >>,
                                 metadata |-> r.metadata]]
        ELSE LET rows == SelectSeq(m.coords, LAMBDA c : c.relpath = relpath)
                 AngleOfSample(s) ==
                    m.angles[CHOOSE k \in 1..Len(m.angles) : m.angles[k].sample = s].angle
             IN  [state |-> st2,
                  view |-> [interactors |->
                               [k \in 1..Len(rows) |->
                                   LET cxy == scale_xy(<<rows[k].center_x, rows[k].center_y>>,
                                                       f.den, f.num)
                                   IN  [id |-> rows[k].sample,
                                        cxy |-> cxy,
                                        wxy |-> angles_to_coords(cxy, AngleOfSample(rows[k].sample))]],
                            metadata |-> MetaEmpty]]

\* RegionBowAnnotationModel.set(region) (adjust.py:59-68).
region_set(regions, id, interactors, metadata) ==
    [k \in 1..Len(regions) |->
        IF regions[k].relpath # id THEN regions[k]
        ELSE IF Len(interactors) = 0 THEN [regions[k] EXCEPT !.metadata = metadata]
        ELSE LET last_one == interactors[Len(interactors)]
             IN  [regions[k] EXCEPT !.metadata = metadata,
                                    !.center_x = last_one.cxy[1],
                                    !.center_y = last_one.cxy[2],
                                    !.well_x = last_one.wxy[1],
                                    !.well_y = last_one.wxy[2]]]

\* GetInteractors() and GetAnnotations() of the view; a view that was never
\* given interactors has none, and no annotations.
GetInteractors(v) == IF v = NoJob THEN <<>> ELSE v.interactors
GetAnnotations(v) == IF v = NoJob THEN MetaEmpty ELSE v.metadata

\* The tables after model.set of on_changed (adjust.py:245-254,
\* annotate.py:263-267) for the interactors of the view: one outcome for
\* each outcome of the angles.
ModelsAfterSet(m, st, v) ==
    LET shown == GetInteractors(v)
        n == Len(shown)
    IN  IF m.kind = "regions"
        THEN {[m EXCEPT !.regions =
                    region_set(m.regions, st.id,
                               [k \in 1..n |->
                                   [cxy |-> scale_xy(shown[k].cxy,
                                                     st.factor.num, st.factor.den),
                                    wxy |-> scale_xy(shown[k].wxy,
                                                     st.factor.num, st.factor.den)]],
                               GetAnnotations(v))]}
        ELSE {LET after == set_from(m.coords, m.angles, st.id,
                              [k \in 1..n |->
                                  [id |-> shown[k].id,
                                   cxy |-> scale_xy(shown[k].cxy,
                                                    st.factor.num, st.factor.den),
                                   angle |-> a[k]]])
              IN  [m EXCEPT !.coords = after.coords, !.angles = after.angles] :
                a \in {a \in [1..n -> {-180, -135, -90, -45, 0, 45, 90, 135, 180}] :
                        \A k \in 1..n :
                            a[k] \in coords_to_angle(shown[k].cxy, shown[k].wxy)}}

\* on_changed(interactors, do_after) (adjust.py:245-261, annotate.py:263-274):
\* the models, states and views it can leave.
on_changed(m, st, v, do_after) ==
    {LET st0 == [st EXCEPT !.err = "none"]
     IN  IF do_after = "prev" /\ ~is_first(st0)
         THEN LET r == render(m2, [st0 EXCEPT !.ind = @ - 1], v)
              IN  [model |-> m2, state |-> r.state, view |-> r.view]
         ELSE IF do_after = "next" /\ ~is_last(m2, st0)
         THEN LET r == render(m2, [st0 EXCEPT !.ind = @ + 1], v)
              IN  [model |-> m2, state |-> r.state, view |-> r.view]
         ELSE [model |-> m2, state |-> st0, view |-> v] :
        m2 \in ModelsAfterSet(m, st, v)}

\* The rows a region table can hold: the crops of two wells, the second of
\* them listed twice (a drug in two wells of the device), and a third.
PresentRows ==
    { Row(Fields("S1", "d1"), <<0, 0>>, <<33, 40>>, <<73, 40>>, 10, MetaInclude),
      Row(Fields("S1", "d2"), <<0, 0>>, <<20, 21>>, <<60, 21>>, 10, MetaEmpty),
      Row(Fields("S1", "d2"), <<0, 0>>, <<24, 30>>, <<64, 30>>, 10, MetaEmpty),
      Row(Fields("S2", "d1"), <<0, 0>>, <<40, 40>>, <<40, 80>>, 10, MetaInclude) }

\* The models adjust_regions and annotate_slides can be given: a region
\* table of one to MaxItems rows, or the tables of a block of two slides
\* with the arrows where the user left them.
PresentModels ==
    {[kind |-> "regions", regions |-> t, relpaths |-> sorted_relpaths(t),
      factor |-> f] : t \in SeqsOf(PresentRows, 1, MaxItems), f \in Factors}
    \cup
    {LET c == set_from(init_coords_slides(AnnSlides, Samples),
                       init_angles_coarse(Samples), AnnSlides[1].relpath,
                       <<[id |-> "S1", cxy |-> m.cxy, angle |-> m.angle]>>)
     IN  [kind |-> "slides", coords |-> c.coords, angles |-> c.angles,
          relpaths |-> unique_relpaths(c.coords), factor |-> f] :
        m \in SetMarks \cup {[cxy |-> <<51, 41>>, angle |-> 180]}, f \in Factors}

InitPresent ==
    /\ IdleBlock
    /\ IdleMerge
    /\ IdleCrop
    /\ IdleMask
    /\ IdleCall
    /\ model \in PresentModels
    /\ state = [ind |-> 0, id |-> "", factor |-> NoFactor, err |-> "none"]
    /\ view = NoJob
    /\ mouse = NoJob
    /\ pc = "start"

\* presenter.render() of adjust_regions and annotate_slides (adjust.py:268,
\* annotate.py:286), before the main loop: an exception ends the program.
FirstRender ==
    /\ pc = "start"
    /\ LET r == render(model, state, view)
       IN  /\ state' = r.state
           /\ view' = r.view
           /\ pc' = IF r.state.err = "none" THEN "shown" ELSE "failed"
    /\ UNCHANGED <<mergeVars, cropVars, maskVars, blockVars, callVars, model, mouse>>

\* One of the window's events: OnSave with the do_after of the event.
Changed(do_after) ==
    /\ pc = "shown"
    /\ \E r \in on_changed(model, state, view, do_after) :
        /\ model' = r.model
        /\ state' = r.state
        /\ view' = r.view
    /\ UNCHANGED <<mergeVars, cropVars, maskVars, blockVars, callVars, mouse>>

\* The Prev button or Q, the Next button or E, the Save button or Ctrl+S.  An
\* exception in a handler is reported and the main loop goes on.
OnPrev == Changed("prev") /\ pc' = pc
OnNext == Changed("next") /\ pc' = pc
OnSave == Changed("none") /\ pc' = pc

\* The Done button: a save, and the window is closed.
OnDone == Changed("none") /\ pc' = "closed"

NextPresent == FirstRender \/ OnPrev \/ OnNext \/ OnSave \/ OnDone

SpecPresent == InitPresent /\ [][NextPresent]_vars

----------------------------------------------------------------------------
(* Claims about the presenters, checked under SpecPresent.                 *)

\* C27: in both presenters the index stays within 0 .. (number of distinct
\* relpaths - 1) after any sequence of prev, next, save and done, and
\* model.get is never called with an index outside the relpaths, a region
\* table with two rows of one relpath included.
C27_IndexWithinRelpaths ==
    /\ state.ind \in 0..(Len(model.relpaths) - 1)
    /\ state.err # "IndexError"

\* The region presenter went past the last relpath of a table in which two
\* rows share a relpath, and model.get raised IndexError.
C27_Witness ==
    /\ pc = "shown"
    /\ model.kind = "regions"
    /\ Len(model.relpaths) < Len(model.regions)
    /\ state.ind = Len(model.relpaths)
    /\ state.err = "IndexError"

\* C27, the part that holds: the index stays within the relpaths in the
\* slide presenter, and in the region presenter when no two rows share a
\* relpath.
C27_IndexWithinUniqueRelpaths ==
    (model.kind = "slides" \/ Len(model.relpaths) = Len(model.regions)) =>
        /\ state.ind \in 0..(Len(model.relpaths) - 1)
        /\ state.err = "none"

\* C28: a save, prev, next or done without an edit leaves the model's tables
\* as they were, for every downsample factor.
C28_SaveWithoutEditKeepsTables == [][model' = model]_vars

\* A region row that is none of the rows the model was given: its center
\* came back from the view rounded to a multiple of the factor.
C28_Witness ==
    /\ pc = "shown"
    /\ model.kind = "regions"
    /\ Len(model.relpaths) = Len(model.regions)
    /\ model.factor.num > 1
    /\ \E k \in 1..Len(model.regions) :
        /\ model.regions[k] \notin PresentRows
        /\ model.regions[k].center_x % model.factor.num = 0

\* C28, the part that holds: with a factor of 1 or the inverse of a whole
\* number, a region table without two rows of one relpath is left as it was.
C28_WholeInverseFactorKeepsRegions ==
    [][(model.kind = "regions" /\ model.factor.num = 1
        /\ Len(model.relpaths) = Len(model.regions)) => model' = model]_vars


----------------------------------------------------------------------------
(* Claims about the records of unpack, checked under SpecUnpack.           *)

\* The record names a device and carries cohorts that are not None.
RecordComplete(r) ==
    /\ r.device \in {"DEV", "DEV2"}
    /\ r.cohorts # PyNone

\* C29: every record unpack returns has a device and cohorts that are not
\* None, for every configuration it accepts, and for a samples value that is
\* neither a count nor a list unpack raises or returns at least one record.
C29_RecordsComplete ==
    (pc = "unpacked" /\ ret.ok) =>
        /\ \A k \in 1..Len(ret.samples) : RecordComplete(ret.samples[k])
        /\ (args.samples.py \notin {"int", "list"}) => Len(ret.samples) >= 1

\* A count in a block with a device and without cohorts was unpacked: the
\* records carry cohorts None.
C29_Witness ==
    /\ pc = "unpacked"
    /\ ret.ok
    /\ args.samples.py = "int"
    /\ "cohorts" \notin DOMAIN args
    /\ Len(ret.samples) >= 1
    /\ \A k \in 1..Len(ret.samples) : ret.samples[k].cohorts = PyNone

\* A samples value that is a single name was accepted and gave no record.
C29_UnsupportedTypeReturnsNothing ==
    (pc = "unpacked" /\ args.samples.py \notin {"int", "list"}) =>
        ret.ok /\ ret.samples = <<>>

\* C29, the part that holds: every record names a device, and the record of
\* a dict entry carries cohorts that are not None.
C29_DeviceAndDictCohorts ==
    (pc = "unpacked" /\ ret.ok) =>
        \A k \in 1..Len(ret.samples) :
            /\ ret.samples[k].device \in {"DEV", "DEV2"}
            /\ (args.samples.py = "list" /\ args.samples.items[k].py = "dict")
                    => ret.samples[k].cohorts # PyNone


----------------------------------------------------------------------------
(* The interactors of the canvas (gui/interactors.py, gui/panels.py) under *)
(* the canvas's press, release, motion and key events (SpecMouse).         *)

\* epsilon of interactors.py:16, in display pixels.
epsilon == 20

\* _ind and _ind_last when they are None.
IndNone == -1

\* Largest number of key presses of a run.
MaxKeys == 1

\* The axes inside the canvas, in display pixels: a margin is left of them.
AxesLeft == 40
AxesRight == 200

\* line.get_transform().transform(xy): data coordinates to display pixels,
\* the image being shown zoom times its size.
transform(zoom, xy) == <<AxesLeft + zoom * xy[1], zoom * xy[2]>>

\* event.inaxes of an event at the display point xy: the axes or None.
inaxes(xy) == xy[1] >= AxesLeft /\ xy[1] <= AxesRight

\* int(round(event.xdata)), int(round(event.ydata)) of an event in the axes.
xydata(zoom, xy) == <<RoundDiv(xy[1] - AxesLeft, zoom), RoundDiv(xy[2], zoom)>>

\* numpy.hypot(xt - event.x, yt - event.y) squared.
Hypot2(p, q) == (p[1] - q[1]) * (p[1] - q[1]) + (p[2] - q[2]) * (p[2] - q[2])

\* move(key, x, y) (interactors.py:27-40).
move(key, xy) ==
    IF key = "w" THEN <<xy[1], xy[2] - 1>>
    ELSE IF key = "s" THEN <<xy[1], xy[2] + 1>>
    ELSE IF key = "a" THEN <<xy[1] - 1, xy[2]>>
    ELSE IF key = "d" THEN <<xy[1] + 1, xy[2]>>
    ELSE xy

\* get_ind_under_point(event) (interactors.py:170-183, 389-402): the nearer
\* end of the line, the tail first, when it is closer than epsilon.
get_ind_under_point(it, zoom, xy) ==
    LET d0 == Hypot2(transform(zoom, it.cxy), xy)
        d1 == Hypot2(transform(zoom, it.wxy), xy)
        ind == IF d0 <= d1 THEN 0 ELSE 1
        d == IF ind = 0 THEN d0 ELSE d1
    IN  IF d >= epsilon * epsilon THEN IndNone ELSE ind

\* _set_arrow_head(x, y) (interactors.py:255-256, 498-499).
set_arrow_head(it, xy) == [it EXCEPT !.wxy = xy]

\* _set_arrow_tail(x, y): the arrow's head moves along with its tail
\* (interactors.py:258-264), the bow's head stays (interactors.py:501-502).
set_arrow_tail(it, xy) ==
    IF it.kind = "arrow"
    THEN [it EXCEPT !.cxy = xy,
                    !.wxy = <<it.wxy[1] - it.cxy[1] + xy[1],
                              it.wxy[2] - it.cxy[2] + xy[2]>>]
    ELSE [it EXCEPT !.cxy = xy]

\* button_press_callback(event) (interactors.py:185-193, 404-412).
button_press_callback(it, zoom, event) ==
    IF ~inaxes(event.xy) THEN it
    ELSE IF event.button # 1 THEN it
    ELSE LET ind == get_ind_under_point(it, zoom, event.xy)
         IN  [it EXCEPT !.ind = ind, !.ind_last = ind]

\* A release that leaves _ind as it is.
button_release_kept(it, event) == it

\* button_release_callback(event) (interactors.py:195-199, 414-418).
button_release_callback(it, event) ==
    IF event.button # 1 THEN it ELSE [it EXCEPT !.ind = IndNone]

\* motion_notify_callback(event) for a mouse event (interactors.py:211-226,
\* 453-468).
motion_notify_callback(it, zoom, event) ==
    IF it.ind = IndNone THEN it
    ELSE IF ~inaxes(event.xy) THEN it
    ELSE IF event.button # 1 THEN it
    ELSE IF it.ind = 1 THEN set_arrow_head(it, xydata(zoom, event.xy))
    ELSE set_arrow_tail(it, xydata(zoom, event.xy))

\* key_press_event(event) (interactors.py:228-246, 470-488).
key_press_event(it, event) ==
    IF it.ind_last = IndNone THEN it
    ELSE IF ~inaxes(event.xy) THEN it
    ELSE IF it.ind_last = 1 THEN set_arrow_head(it, move(event.key, it.wxy))
    ELSE set_arrow_tail(it, move(event.key, it.cxy))

\* UpdateInteractors(event) for a key event (panels.py:121-130): the
\* motion_notify_callback of an interactor that is held reads event.button,
\* which a key event does not have.
UpdateRaises(interactors, event) ==
    /\ inaxes(event.xy)
    /\ \E i \in 1..Len(interactors) : interactors[i].ind # IndNone

\* The display points of the events: one in the margin, the others in the
\* axes.
EventPoints == {<<10, 20>>, <<50, 20>>, <<90, 20>>}

\* The zooms of the image.
Zooms == {1, 2}

\* The buttons of a press or a release, and of a motion (0 for None).
Buttons == {1, 3}
MotionButtons == {0, 1, 3}

\* The keys: two of the arrow keys and a key that is none of them.
Keys == {"w", "d", "x"}

\* A new interactor (interactors.py:76-88, 272-284).
Interactor(kind, id, cxy, wxy) ==
    [kind |-> kind, id |-> id, cxy |-> cxy, wxy |-> wxy,
     ind |-> IndNone, ind_last |-> IndNone]

\* SetInteractors (panels.py:139-151) of a slide with two samples, and of a
\* region.
MouseViews ==
    { <<Interactor("arrow", "S1", <<10, 20>>, <<50, 20>>),
        Interactor("arrow", "S2", <<50, 30>>, <<90, 30>>)>>,
      <<Interactor("bow", "0", <<10, 20>>, <<50, 20>>)>> }

\* The interactor has an end closer than epsilon to the display point.
WithinEpsilon(it, zoom, xy) ==
    \/ Hypot2(transform(zoom, it.cxy), xy) < epsilon * epsilon
    \/ Hypot2(transform(zoom, it.wxy), xy) < epsilon * epsilon

\* The canvas with its interactors.  mouse holds the zoom, the exception of
\* the last handler and the number of key presses, and the history of the
\* left presses: for every interactor, whether one of its ends was under the
\* latest left press (under), under the latest left press in the axes
\* (under_in), and under a left press with no left release after it (held).
InitMouse ==
    /\ IdleBlock
    /\ IdleMerge
    /\ IdleCrop
    /\ IdleMask
    /\ IdleCall
    /\ model = NoJob
    /\ state = NoJob
    /\ \E its \in MouseViews : \E zoom \in Zooms :
        /\ view = [interactors |-> its]
        /\ mouse = [zoom |-> zoom, err |-> "none", keys |-> 0,
                    under |-> [i \in 1..Len(its) |-> FALSE],
                    under_in |-> [i \in 1..Len(its) |-> FALSE],
                    held |-> [i \in 1..Len(its) |-> FALSE]]
    /\ pc = "canvas"

\* OnClick (panels.py:76-83).
OnClick ==
    /\ pc = "canvas"
    /\ \E button \in Buttons, xy \in EventPoints :
        LET event == [name |-> "button_press_event", button |-> button, xy |-> xy]
            its == view.interactors
            near == [i \in 1..Len(its) |-> WithinEpsilon(its[i], mouse.zoom, xy)]
        IN  /\ args' = [name |-> event.name]
            /\ view' = [view EXCEPT !.interactors =
                            IF ~inaxes(xy) THEN its
                            ELSE [i \in 1..Len(its) |->
                                    button_press_callback(its[i], mouse.zoom, event)]]
            /\ mouse' = IF button # 1 THEN [mouse EXCEPT !.err = "none"]
                        ELSE [mouse EXCEPT
                                !.err = "none",
                                !.under = near,
                                !.under_in = IF inaxes(xy) THEN near ELSE @,
                                !.held = [i \in 1..Len(its) |-> @[i] \/ near[i]]]
    /\ UNCHANGED <<mergeVars, cropVars, maskVars, blockVars, ret, model, state, pc>>

\* OnMouseButtonUp (panels.py:85-90).
OnMouseButtonUp ==
    /\ pc = "canvas"
    /\ \E button \in Buttons, xy \in EventPoints :
        LET event == [name |-> "button_release_event", button |-> button, xy |-> xy]
            its == view.interactors
        IN  /\ args' = [name |-> event.name]
            /\ view' = [view EXCEPT !.interactors =
                            [i \in 1..Len(its) |-> button_release_callback(its[i], event)]]
            /\ mouse' = IF button # 1 THEN [mouse EXCEPT !.err = "none"]
                        ELSE [mouse EXCEPT !.err = "none",
                                           !.held = [i \in 1..Len(its) |-> FALSE]]
    /\ UNCHANGED <<mergeVars, cropVars, maskVars, blockVars, ret, model, state, pc>>

\* DevicesInteractorsPanel.OnMouseMoved (panels.py:156-160) and
\* BaseInteractorsPanel.OnMouseMoved (panels.py:92-96).
OnMouseMoved ==
    /\ pc = "canvas"
    /\ \E button \in MotionButtons, xy \in EventPoints :
        LET event == [name |-> "motion_notify_event", button |-> button, xy |-> xy]
            its == view.interactors
        IN  /\ args' = [name |-> event.name]
            /\ view' = [view EXCEPT !.interactors =
                            IF button # 1 \/ ~inaxes(xy) THEN its
                            ELSE [i \in 1..Len(its) |->
                                    motion_notify_callback(its[i], mouse.zoom, event)]]
            /\ mouse' = [mouse EXCEPT !.err = "none"]
    /\ UNCHANGED <<mergeVars, cropVars, maskVars, blockVars, ret, model, state, pc>>

\* OnKeyPress (panels.py:98-107).
OnKeyPress ==
    /\ pc = "canvas"
    /\ mouse.keys < MaxKeys
    /\ \E key \in Keys, xy \in EventPoints :
        LET event == [name |-> "key_press_event", key |-> key, xy |-> xy]
            its == view.interactors
            moved == [i \in 1..Len(its) |-> key_press_event(its[i], event)]
        IN  /\ args' = [name |-> event.name]
            /\ view' = [view EXCEPT !.interactors = IF ~inaxes(xy) THEN its ELSE moved]
            /\ mouse' = [mouse EXCEPT
                            !.keys = @ + 1,
                            !.err = IF UpdateRaises(moved, event)
                                    THEN "AttributeError" ELSE "none"]
    /\ UNCHANGED <<mergeVars, cropVars, maskVars, blockVars, ret, model, state, pc>>

\* OnKeyRelease (panels.py:109-119).
OnKeyRelease ==
    /\ pc = "canvas"
    /\ \E key \in Keys, xy \in EventPoints :
        LET event == [name |-> "key_release_event", key |-> key, xy |-> xy]
        IN  /\ args' = [name |-> event.name]
            /\ mouse' = [mouse EXCEPT
                            !.err = IF UpdateRaises(view.interactors, event)
                                    THEN "AttributeError" ELSE "none"]
    /\ UNCHANGED <<mergeVars, cropVars, maskVars, blockVars, ret, model, state, view, pc>>

NextMouse == OnClick \/ OnMouseButtonUp \/ OnMouseMoved \/ OnKeyPress \/ OnKeyRelease

SpecMouse == InitMouse /\ [][NextMouse]_vars


----------------------------------------------------------------------------
(* Claims about the interactors, checked under SpecMouse.                  *)

\* The step changed the center or the well point of interactor i.
PointsMoved(i) ==
    \/ view'.interactors[i].cxy # view.interactors[i].cxy
    \/ view'.interactors[i].wxy # view.interactors[i].wxy

\* A motion moves an interactor only between a left press closer than
\* epsilon to one of its ends and the left release after it.
MotionOnlyWhileHeld ==
    \A i \in 1..Len(view.interactors) :
        (args'.name = "motion_notify_event" /\ PointsMoved(i)) => mouse.held[i]

\* Moving the tail of an arrow moves its head by the same amount.
ArrowTailKeepsOffset ==
    \A i \in 1..Len(view.interactors) :
        LET a == view.interactors[i]
            b == view'.interactors[i]
        IN  (a.kind = "arrow" /\ b.cxy # a.cxy) =>
                /\ b.wxy[1] - b.cxy[1] = a.wxy[1] - a.cxy[1]
                /\ b.wxy[2] - b.cxy[2] = a.wxy[2] - a.cxy[2]

\* C30: the points of an interactor change only through a grab: a motion
\* moves it only between a left press closer than epsilon to one of its ends
\* and the following left release, a key press moves only an interactor one
\* of whose ends was under the most recent left press, and moving the tail
\* of an arrow keeps wxy - cxy.
C30_MovedOnlyThroughGrab ==
    [][/\ MotionOnlyWhileHeld
       /\ \A i \in 1..Len(view.interactors) :
            (args'.name = "key_press_event" /\ PointsMoved(i)) => mouse.under[i]
       /\ ArrowTailKeepsOffset]_vars

\* C30 as the code has it: the same, a key press moving only an interactor
\* one of whose ends was under the most recent left press inside the axes.
C30_MovedOnlyThroughGrabInAxes ==
    [][/\ MotionOnlyWhileHeld
       /\ \A i \in 1..Len(view.interactors) :
            (args'.name = "key_press_event" /\ PointsMoved(i)) => mouse.under_in[i]
       /\ ArrowTailKeepsOffset]_vars

\* The tail of the first arrow was picked, the left button was then pressed
\* in the margin, away from both arrows, and the key w moved the first arrow
\* and nothing else.
C30_Witness ==
    /\ pc = "canvas"
    /\ args.name = "key_press_event"
    /\ Len(view.interactors) = 2
    /\ view.interactors[1].cxy = <<10, 19>>
    /\ view.interactors[1].wxy = <<50, 19>>
    /\ view.interactors[2].cxy = <<50, 30>>
    /\ view.interactors[2].wxy = <<90, 30>>
    /\ mouse.under_in[1]
    /\ ~mouse.under[1]

====
